---- MODULE Spec2Model ----
(***************************************************************************)
(* Interlock: the begin/submit ticket.json lifecycle (server.py), the      *)
(* stage registry and transition function (fsm.py), the stage payload gate *)
(* (gates.py, schemas/stage_payloads.py), the envelope schema              *)
(* (schemas/ticket.py) and the artifact store (storage.py).                *)
(*                                                                         *)
(* Strings that come from the agent are sequences of tokens; the token     *)
(* " " is whitespace, so that str.strip() is modelled by what it does.     *)
(* Strings the server holds after parsing are plain TLA+ strings.          *)
(***************************************************************************)
EXTENDS Integers, Sequences, FiniteSets, TLC

VARIABLES
    store,          \* runs/<run_id>/ticket.json : run_id -> snapshot or NoTicket
    tickets_file,   \* tickets.jsonl : every snapshot written, in order
    events,         \* events.jsonl  : every event record written, in order
    now,            \* the wall clock read by _utc_now
    held,           \* the agent's copy of the latest server-issued ticket.json per run
    req,            \* the call in flight: the last request sent by the agent
    resp,           \* the response returned to that call
    inflight        \* the submit calls that run at the same time, write by write

vars == <<store, tickets_file, events, now, held, req, resp, inflight>>

----------------------------------------------------------------------------
(* Bounds of the model *)

\* the number of calls (begin_run, submit) the agent makes
MaxCalls == 3

----------------------------------------------------------------------------
(* fsm.py : State, STAGE_SPECS, TRANSITION_MAP, roles *)

FETCH_TICKET == "fetch_ticket"
EXTRACT_REQUIREMENTS == "extract_requirements"
SCOPE_CONTEXT == "scope_context"
GATHER_EVIDENCE == "gather_evidence"
PROPOSE_PLAN == "propose_plan"
ACT_VIA_TOOLS == "act_via_tools"
RECORD_AND_FINALIZE == "record_and_finalize"
COMPLETE == "complete"
FAIL_CLOSED == "fail_closed"

State ==
    { FETCH_TICKET, EXTRACT_REQUIREMENTS, SCOPE_CONTEXT, GATHER_EVIDENCE,
      PROPOSE_PLAN, ACT_VIA_TOOLS, RECORD_AND_FINALIZE, COMPLETE, FAIL_CLOSED }

AGENT_ROLE_COMPLETE == "Run is complete."
AGENT_ROLE_FAIL_CLOSED == "Run is fail-closed."
AGENT_ROLE_INVALID_STATE == "Invalid ticket state."
AGENT_ROLE_BAD_INPUT == "Invalid input payload."

\* the registry: one StageSpec per working stage, none for the terminals
STAGE_SPECS ==
    [ fetch_ticket |->
        [ agent_role |-> "Fetch ticket context",
          required_fields |-> <<"external_source", "external_ticket_id", "title", "description">> ],
      extract_requirements |->
        [ agent_role |-> "Extract acceptance criteria",
          required_fields |-> <<"acceptance_criteria", "constraints", "unknowns">> ],
      scope_context |->
        [ agent_role |-> "Define retrieval targets",
          required_fields |-> <<"retrieval_targets", "retrieval_justification">> ],
      gather_evidence |->
        [ agent_role |-> "Collect evidence snippets",
          required_fields |-> <<"evidence_items">> ],
      propose_plan |->
        [ agent_role |-> "Produce a structured plan",
          required_fields |-> <<"plan_steps">> ],
      act_via_tools |->
        [ agent_role |-> "Execute plan steps via tools",
          required_fields |-> <<"actions_taken", "outputs", "checkpoints">> ],
      record_and_finalize |->
        [ agent_role |-> "Persist artifacts and finalize",
          required_fields |-> <<"artifacts", "final_summary", "outcome">> ] ]

\* a successor table that skips scope_context
TRANSITION_MAP_SkipsScope ==
    [ fetch_ticket |-> EXTRACT_REQUIREMENTS,
      extract_requirements |-> GATHER_EVIDENCE,
      scope_context |-> GATHER_EVIDENCE,
      gather_evidence |-> PROPOSE_PLAN,
      propose_plan |-> ACT_VIA_TOOLS,
      act_via_tools |-> RECORD_AND_FINALIZE,
      record_and_finalize |-> COMPLETE ]

\* a successor table that sends the last stage back to the first
TRANSITION_MAP_Restarts ==
    [ fetch_ticket |-> EXTRACT_REQUIREMENTS,
      extract_requirements |-> SCOPE_CONTEXT,
      scope_context |-> GATHER_EVIDENCE,
      gather_evidence |-> PROPOSE_PLAN,
      propose_plan |-> ACT_VIA_TOOLS,
      act_via_tools |-> RECORD_AND_FINALIZE,
      record_and_finalize |-> FETCH_TICKET ]

TRANSITION_MAP ==
    [ fetch_ticket |-> EXTRACT_REQUIREMENTS,
      extract_requirements |-> SCOPE_CONTEXT,
      scope_context |-> GATHER_EVIDENCE,
      gather_evidence |-> PROPOSE_PLAN,
      propose_plan |-> ACT_VIA_TOOLS,
      act_via_tools |-> RECORD_AND_FINALIZE,
      record_and_finalize |-> COMPLETE ]

get_agent_role(state) ==
    IF state = COMPLETE THEN AGENT_ROLE_COMPLETE
    ELSE IF state = FAIL_CLOSED THEN AGENT_ROLE_FAIL_CLOSED
    ELSE IF state \in DOMAIN STAGE_SPECS THEN STAGE_SPECS[state].agent_role
    ELSE AGENT_ROLE_INVALID_STATE

get_required_fields(state) ==
    IF state \in DOMAIN STAGE_SPECS THEN STAGE_SPECS[state].required_fields ELSE <<>>

get_next_stage_fields(state) ==
    IF state \in DOMAIN TRANSITION_MAP
    THEN get_required_fields(TRANSITION_MAP[state])
    ELSE <<>>

is_terminal(state) == state \in {COMPLETE, FAIL_CLOSED}

\* the stage absent from a TransitionResult (next_state=None)
NoState == "none"

\* a transition that passes from complete back to complete
transition_CompleteLoops(current_state) ==
    IF current_state = FAIL_CLOSED
    THEN [ status |-> "stop", reason |-> "Run is fail-closed",
           next_state |-> NoState, agent_role |-> get_agent_role(FAIL_CLOSED) ]
    ELSE IF current_state \notin DOMAIN TRANSITION_MAP
    THEN [ status |-> "pass", reason |-> "Transition",
           next_state |-> COMPLETE, agent_role |-> get_agent_role(COMPLETE) ]
    ELSE [ status |-> "pass", reason |-> "Transition",
           next_state |-> TRANSITION_MAP[current_state],
           agent_role |-> get_agent_role(TRANSITION_MAP[current_state]) ]

transition(current_state) ==
    IF current_state = COMPLETE
    THEN [ status |-> "stop", reason |-> "Run already completed",
           next_state |-> NoState, agent_role |-> get_agent_role(COMPLETE) ]
    ELSE IF current_state = FAIL_CLOSED
    THEN [ status |-> "stop", reason |-> "Run is fail-closed",
           next_state |-> NoState, agent_role |-> get_agent_role(FAIL_CLOSED) ]
    ELSE IF current_state \notin DOMAIN TRANSITION_MAP
    THEN [ status |-> "stop", reason |-> "Invalid state",
           next_state |-> NoState, agent_role |-> AGENT_ROLE_INVALID_STATE ]
    ELSE [ status |-> "pass", reason |-> "Transition",
           next_state |-> TRANSITION_MAP[current_state],
           agent_role |-> get_agent_role(TRANSITION_MAP[current_state]) ]

----------------------------------------------------------------------------
(* Strings as the agent sends them, and str.strip() *)

SP == " "

RECURSIVE LStrip(_)
LStrip(s) == IF s # <<>> /\ Head(s) = SP THEN LStrip(Tail(s)) ELSE s

RECURSIVE RStrip(_)
RStrip(s) ==
    IF s # <<>> /\ s[Len(s)] = SP THEN RStrip(SubSeq(s, 1, Len(s) - 1)) ELSE s

Strip(s) == RStrip(LStrip(s))

\* the server-side string of a stripped token sequence (one token, or empty)
Text(s) == IF s = <<>> THEN "" ELSE s[1]

\* the JSON string of a server-side string
Raw(t) == IF t = "" THEN <<>> ELSE <<t>>

----------------------------------------------------------------------------
(* JSON values of a payload (dict[str, Any]) *)

JStr(s) == [t |-> "str", v |-> s]
JList(l) == [t |-> "list", v |-> l]
JObj(o) == [t |-> "obj", v |-> o]
JNum == [t |-> "num", v |-> <<>>]

----------------------------------------------------------------------------
(* schemas/stage_payloads.py : the per-stage payload models *)

\* a declared field: kind "str" is str with min_length=1, "list_str" is
\* list[str] with min_length=1 and the non-empty-items validator, "list_model"
\* is a list of nested models with min_length=1, "literal" is the Literal
FieldDef(name, kind, item) == [name |-> name, kind |-> kind, item |-> item]

FetchTicketPayload ==
    << FieldDef("external_source", "str", ""), FieldDef("external_ticket_id", "str", ""),
       FieldDef("title", "str", ""), FieldDef("description", "str", "") >>

ExtractRequirementsPayload ==
    << FieldDef("acceptance_criteria", "list_str", ""), FieldDef("constraints", "list_str", ""),
       FieldDef("unknowns", "list_str", "") >>

ScopeContextPayload ==
    << FieldDef("retrieval_targets", "list_str", ""),
       FieldDef("retrieval_justification", "str", "") >>

EvidenceItem ==
    << FieldDef("source_id", "str", ""), FieldDef("source_type", "str", ""),
       FieldDef("locator", "str", ""), FieldDef("snippet", "str", "") >>

GatherEvidencePayload == << FieldDef("evidence_items", "list_model", "EvidenceItem") >>

PlanStep ==
    << FieldDef("step_id", "str", ""), FieldDef("intent", "str", ""),
       FieldDef("requirement_refs", "list_str", ""), FieldDef("evidence_refs", "list_str", "") >>

ProposePlanPayload == << FieldDef("plan_steps", "list_model", "PlanStep") >>

ActViaToolsPayload ==
    << FieldDef("actions_taken", "list_str", ""), FieldDef("outputs", "list_str", ""),
       FieldDef("checkpoints", "list_str", "") >>

RecordAndFinalizePayload ==
    << FieldDef("artifacts", "list_str", ""), FieldDef("final_summary", "str", ""),
       FieldDef("outcome", "literal", "") >>

\* Literal["success", "partial", "blocked"]
OutcomeLiteral == {"success", "partial", "blocked"}

PayloadModel(name) ==
    CASE name = "FetchTicketPayload" -> FetchTicketPayload
      [] name = "ExtractRequirementsPayload" -> ExtractRequirementsPayload
      [] name = "ScopeContextPayload" -> ScopeContextPayload
      [] name = "EvidenceItem" -> EvidenceItem
      [] name = "GatherEvidencePayload" -> GatherEvidencePayload
      [] name = "PlanStep" -> PlanStep
      [] name = "ProposePlanPayload" -> ProposePlanPayload
      [] name = "ActViaToolsPayload" -> ActViaToolsPayload
      [] name = "RecordAndFinalizePayload" -> RecordAndFinalizePayload

\* a payload-schema table with no entry for scope_context
STAGE_PAYLOAD_MODELS_NoScope ==
    [ fetch_ticket |-> "FetchTicketPayload",
      extract_requirements |-> "ExtractRequirementsPayload",
      gather_evidence |-> "GatherEvidencePayload",
      propose_plan |-> "ProposePlanPayload",
      act_via_tools |-> "ActViaToolsPayload",
      record_and_finalize |-> "RecordAndFinalizePayload" ]

STAGE_PAYLOAD_MODELS ==
    [ fetch_ticket |-> "FetchTicketPayload",
      extract_requirements |-> "ExtractRequirementsPayload",
      scope_context |-> "ScopeContextPayload",
      gather_evidence |-> "GatherEvidencePayload",
      propose_plan |-> "ProposePlanPayload",
      act_via_tools |-> "ActViaToolsPayload",
      record_and_finalize |-> "RecordAndFinalizePayload" ]

----------------------------------------------------------------------------
(* Validation of a payload against a model: the errors of a pydantic         *)
(* ValidationError, in the order the fields are declared, extras last.       *)

\* a ValidationIssue; field is the dotted path, kept as the sequence of its parts
ValidationIssue(loc, code, message) ==
    [field |-> IF loc = <<>> THEN <<"payload">> ELSE loc, code |-> code, message |-> message]

ErrMissing(loc) == ValidationIssue(loc, "missing", "Field required")
ErrExtra(loc) == ValidationIssue(loc, "extra_forbidden", "Extra inputs are not permitted")
ErrStringType(loc) == ValidationIssue(loc, "string_type", "Input should be a valid string")
ErrStringTooShort(loc) ==
    ValidationIssue(loc, "string_too_short", "String should have at least 1 character")
ErrListType(loc) == ValidationIssue(loc, "list_type", "Input should be a valid list")
ErrTooShort(loc) ==
    ValidationIssue(loc, "too_short", "List should have at least 1 item after validation, not 0")
ErrItems(loc) == ValidationIssue(loc, "value_error", "Value error, List items must be non-empty")
ErrLiteral(loc) ==
    ValidationIssue(loc, "literal_error", "Input should be 'success', 'partial' or 'blocked'")
ErrModelType(loc) ==
    ValidationIssue(loc, "model_type", "Input should be a valid dictionary or instance")

\* the part of a path naming a list position
IndexPart(i) == <<"0", "1", "2", "3">>[i]

RECURSIVE Concat(_)
Concat(seqs) == IF seqs = <<>> THEN <<>> ELSE Head(seqs) \o Concat(Tail(seqs))

\* StrictPayloadModel._strip_strings (mode="before") then str, min_length=1
StrErrors(v, loc) ==
    IF v.t # "str" THEN <<ErrStringType(loc)>>
    ELSE IF Len(Strip(v.v)) < 1 THEN <<ErrStringTooShort(loc)>>
    ELSE <<>>

\* _strip_strings then Literal[...]
LiteralErrors(v, loc) ==
    IF v.t = "str" /\ Len(Strip(v.v)) = 1 /\ Text(Strip(v.v)) \in OutcomeLiteral
    THEN <<>>
    ELSE <<ErrLiteral(loc)>>

\* the field validator over a list[str]: it raises at the first empty item
\* (_validate_non_empty_items, _validate_targets, _validate_refs,
\* _validate_items, _validate_artifacts)
validate_non_empty_items(values, loc) ==
    IF \E i \in 1..Len(values) : Strip(values[i].v) = <<>>
    THEN <<ErrItems(loc)>>
    ELSE <<>>

\* list[str] = Field(..., min_length=1) with the items validator
ListStrErrors(v, loc) ==
    IF v.t # "list" THEN <<ErrListType(loc)>>
    ELSE LET itemErrs ==
                 Concat([i \in 1..Len(v.v) |->
                     IF v.v[i].t # "str"
                     THEN <<ErrStringType(loc \o <<IndexPart(i)>>)>>
                     ELSE <<>>])
         IN IF itemErrs # <<>> THEN itemErrs
            ELSE IF Len(v.v) < 1 THEN <<ErrTooShort(loc)>>
            ELSE validate_non_empty_items(v.v, loc)

RECURSIVE ModelErrors(_, _, _)

\* list[EvidenceItem] / list[PlanStep] = Field(..., min_length=1)
ListModelErrors(item, v, loc) ==
    IF v.t # "list" THEN <<ErrListType(loc)>>
    ELSE LET itemErrs ==
                 Concat([i \in 1..Len(v.v) |->
                     IF v.v[i].t # "obj"
                     THEN <<ErrModelType(loc \o <<IndexPart(i)>>)>>
                     ELSE ModelErrors(item, v.v[i].v, loc \o <<IndexPart(i)>>)])
         IN IF itemErrs # <<>> THEN itemErrs
            ELSE IF Len(v.v) < 1 THEN <<ErrTooShort(loc)>>
            ELSE <<>>

FieldErrors(fd, obj, loc) ==
    IF fd.name \notin DOMAIN obj THEN <<ErrMissing(loc \o <<fd.name>>)>>
    ELSE CASE fd.kind = "str" -> StrErrors(obj[fd.name], loc \o <<fd.name>>)
           [] fd.kind = "literal" -> LiteralErrors(obj[fd.name], loc \o <<fd.name>>)
           [] fd.kind = "list_str" -> ListStrErrors(obj[fd.name], loc \o <<fd.name>>)
           [] fd.kind = "list_model" -> ListModelErrors(fd.item, obj[fd.name], loc \o <<fd.name>>)

\* the names in use, ascending in Python's string order
NameOrder ==
    << "0", "1", "2", "3", "acceptance_criteria", "actions_taken", "agent_role",
       "artifacts", "checkpoints", "constraints", "created_at", "description",
       "evidence_items", "evidence_refs", "external_source", "external_ticket_id",
       "final_summary", "history", "intent", "invalidation_report", "locator",
       "next_stage_fields", "outcome", "outputs", "payload", "plan_steps",
       "required_fields", "requirement_refs", "retrieval_justification",
       "retrieval_targets", "run_id", "schema_version", "snippet", "source_id",
       "source_type", "state", "step_id", "ticket_id", "ticket_json", "title",
       "unexpected", "unknowns", "updated_at", "validation" >>

\* the error codes in use, ascending in Python's string order
CodeOrder ==
    << "extra_forbidden", "list_type", "literal_error", "missing", "model_type",
       "string_too_short", "string_type", "too_short", "value_error" >>

RankIn(order, x) == CHOOSE i \in 1..Len(order) : order[i] = x

\* a < b for dotted paths, compared as Python compares the joined strings
RECURSIVE PathLess(_, _)
PathLess(a, b) ==
    IF a = <<>> THEN b # <<>>
    ELSE IF b = <<>> THEN FALSE
    ELSE IF Head(a) = Head(b) THEN PathLess(Tail(a), Tail(b))
    ELSE RankIn(NameOrder, Head(a)) < RankIn(NameOrder, Head(b))

\* a < b for the sort key (issue.field, issue.code, issue.message);
\* in this model the message is a function of the code
IssueLess(a, b) ==
    \/ PathLess(a.field, b.field)
    \/ a.field = b.field /\ RankIn(CodeOrder, a.code) < RankIn(CodeOrder, b.code)

\* the extra keys of obj for a model, in ascending order
RECURSIVE SortNames(_)
SortNames(S) ==
    IF S = {} THEN <<>>
    ELSE LET m == CHOOSE x \in S : \A y \in S : RankIn(NameOrder, x) <= RankIn(NameOrder, y)
         IN <<m>> \o SortNames(S \ {m})

\* a model that tolerates unknown keys (extra="ignore")
ModelErrors_IgnoresExtra(model, obj, loc) ==
    LET fields == PayloadModel(model)
    IN Concat([i \in 1..Len(fields) |-> FieldErrors(fields[i], obj, loc)])

ModelErrors(model, obj, loc) ==
    LET fields == PayloadModel(model)
        declared == {fields[i].name : i \in 1..Len(fields)}
        extras == SortNames(DOMAIN obj \ declared)
    IN Concat([i \in 1..Len(fields) |-> FieldErrors(fields[i], obj, loc)])
       \o [i \in 1..Len(extras) |-> ErrExtra(loc \o <<extras[i]>>)]

----------------------------------------------------------------------------
(* gates.py *)

\* list.sort (stable) by the key (field, code, message)
RECURSIVE Insert(_, _)
Insert(x, sorted) ==
    IF sorted = <<>> THEN <<x>>
    ELSE IF IssueLess(x, Head(sorted)) THEN <<x>> \o sorted
    ELSE <<Head(sorted)>> \o Insert(x, Tail(sorted))

RECURSIVE SortIssues(_)
SortIssues(issues) ==
    IF issues = <<>> THEN <<>>
    ELSE Insert(issues[Len(issues)], SortIssues(SubSeq(issues, 1, Len(issues) - 1)))

\* the errors in the order pydantic reports them, not sorted
_issues_from_validation_error_Unsorted(errors) == errors

_issues_from_validation_error(errors) == SortIssues(errors)

\* sorted({issue.field for issue in issues}) of an already sorted issue list
RECURSIVE SortedFields(_)
SortedFields(issues) ==
    IF issues = <<>> THEN <<>>
    ELSE LET rest == SortedFields(Tail(issues))
         IN IF rest # <<>> /\ Head(rest) = Head(issues).field
            THEN rest
            ELSE <<Head(issues).field>> \o rest

GateResult(status, reasons, fixes, fields, issues) ==
    [ status |-> status, reasons |-> reasons, fixes |-> fixes,
      missing_or_invalid_fields |-> fields, issues |-> issues ]

\* a gate that lets an empty payload pass
validate_PassesEmpty(state, payload) ==
    IF state \in {COMPLETE, FAIL_CLOSED}
    THEN GateResult("stop", <<"State is terminal">>, <<>>, <<>>, <<>>)
    ELSE IF state \notin DOMAIN STAGE_PAYLOAD_MODELS
    THEN GateResult("stop", <<"No payload schema is registered for state">>, <<>>, <<>>, <<>>)
    ELSE LET errors == IF DOMAIN payload = {} THEN <<>>
                       ELSE ModelErrors(STAGE_PAYLOAD_MODELS[state], payload, <<>>)
             issues == _issues_from_validation_error(errors)
         IN IF errors # <<>>
            THEN GateResult("retry", <<"Payload validation failed for state">>,
                            <<"Populate all required fields with non-empty values and resubmit ticket.json">>,
                            SortedFields(issues), issues)
            ELSE GateResult("pass", <<"Payload schema validation passed">>, <<>>, <<>>, <<>>)

\* StagePayloadGate.validate, on the ticket's state and payload
validate(state, payload) ==
    IF state \in {COMPLETE, FAIL_CLOSED}
    THEN GateResult("stop", <<"State is terminal">>, <<>>, <<>>, <<>>)
    ELSE IF state \notin DOMAIN STAGE_PAYLOAD_MODELS
    THEN GateResult("stop", <<"No payload schema is registered for state">>, <<>>, <<>>, <<>>)
    ELSE LET errors == ModelErrors(STAGE_PAYLOAD_MODELS[state], payload, <<>>)
             issues == _issues_from_validation_error(errors)
         IN IF errors # <<>>
            THEN GateResult("retry", <<"Payload validation failed for state">>,
                            <<"Populate all required fields with non-empty values and resubmit ticket.json">>,
                            SortedFields(issues), issues)
            ELSE GateResult("pass", <<"Payload schema validation passed">>, <<>>, <<>>, <<>>)

----------------------------------------------------------------------------
(* schemas/ticket.py : the envelope *)

\* an Optional value is the empty sequence (None) or a one-element sequence
None == <<>>
Some(x) == <<x>>

\* a dict with no keys
EmptyDict == <<>>

ValidationStatus(status, errors) == [status |-> status, errors |-> errors]

InvalidationReport(state, reason_code, fixable, fields, action) ==
    [ state |-> state, reason_code |-> reason_code, fixable |-> fixable,
      missing_or_invalid_fields |-> fields, required_next_action |-> action ]

\* from_state is NoState for None
HistoryEntry(ts, from_state, to_state, result, reason) ==
    [ ts |-> ts, from_state |-> from_state, to_state |-> to_state,
      result |-> result, reason |-> reason ]

TicketFields ==
    { "schema_version", "run_id", "ticket_id", "state", "agent_role", "required_fields",
      "payload", "next_stage_fields", "validation", "invalidation_report", "history",
      "created_at", "updated_at" }

\* Ticket.to_json : the JSON object of an envelope, strings as JSON strings
to_json(ticket) ==
    [ schema_version |-> Raw(ticket.schema_version),
      run_id |-> Raw(ticket.run_id),
      ticket_id |-> Raw(ticket.ticket_id),
      state |-> Raw(ticket.state),
      agent_role |-> Raw(ticket.agent_role),
      required_fields |-> [i \in 1..Len(ticket.required_fields) |-> Raw(ticket.required_fields[i])],
      payload |-> ticket.payload,
      next_stage_fields |->
          [i \in 1..Len(ticket.next_stage_fields) |-> Raw(ticket.next_stage_fields[i])],
      validation |-> ticket.validation,
      invalidation_report |-> ticket.invalidation_report,
      history |-> ticket.history,
      created_at |-> ticket.created_at,
      updated_at |-> ticket.updated_at ]

\* a submitted string: undecodable text, a JSON value that is no object
\* (array, number, string, null), or a JSON object
TextDoc == [kind |-> "text", obj |-> EmptyDict]
ValueDoc == [kind |-> "value", obj |-> EmptyDict]
ObjectDoc(obj) == [kind |-> "object", obj |-> obj]

\* _validate_required_strings on a str field with min_length=1
RequiredStringBad(obj, key) ==
    \/ key \notin DOMAIN obj
    \/ Len(obj[key]) < 1
    \/ Strip(obj[key]) = <<>>

\* _validate_field_names
FieldNamesBad(obj, key) ==
    key \in DOMAIN obj /\ \E i \in 1..Len(obj[key]) : Strip(obj[key][i]) = <<>>

\* _validate_state, after _validate_required_strings has stripped the value
StateBad(obj) ==
    ~RequiredStringBad(obj, "state") /\ Text(Strip(obj.state)) \notin State

\* an envelope validation that accepts any state value
EnvelopeErrors_AnyState(obj) ==
    {k \in {"run_id", "ticket_id", "state", "agent_role"} : RequiredStringBad(obj, k)}
    \cup {k \in {"schema_version"} : k \in DOMAIN obj /\ RequiredStringBad(obj, k)}
    \cup {k \in {"required_fields", "next_stage_fields"} : FieldNamesBad(obj, k)}
    \cup (DOMAIN obj \ TicketFields)

\* the envelope fields a pydantic ValidationError names
EnvelopeErrors(obj) ==
    {k \in {"run_id", "ticket_id", "state", "agent_role"} : RequiredStringBad(obj, k)}
    \cup {k \in {"schema_version"} : k \in DOMAIN obj /\ RequiredStringBad(obj, k)}
    \cup {k \in {"required_fields", "next_stage_fields"} : FieldNamesBad(obj, k)}
    \cup {k \in {"state"} : StateBad(obj)}
    \cup (DOMAIN obj \ TicketFields)

Default(obj, key, value) == IF key \in DOMAIN obj THEN obj[key] ELSE value

\* Ticket(**data) for data that validates
ParsedTicket(obj, clock) ==
    [ schema_version |-> Text(Strip(Default(obj, "schema_version", <<"1.0.0">>))),
      run_id |-> Text(Strip(obj.run_id)),
      ticket_id |-> Text(Strip(obj.ticket_id)),
      state |-> Text(Strip(obj.state)),
      agent_role |-> Text(Strip(obj.agent_role)),
      required_fields |->
          LET l == Default(obj, "required_fields", <<>>)
          IN [i \in 1..Len(l) |-> Text(Strip(l[i]))],
      payload |-> Default(obj, "payload", EmptyDict),
      next_stage_fields |->
          LET l == Default(obj, "next_stage_fields", <<>>)
          IN [i \in 1..Len(l) |-> Text(Strip(l[i]))],
      validation |-> Default(obj, "validation", ValidationStatus("pending", <<>>)),
      invalidation_report |-> Default(obj, "invalidation_report", None),
      history |-> Default(obj, "history", <<>>),
      created_at |-> Default(obj, "created_at", clock),
      updated_at |-> Default(obj, "updated_at", clock) ]

\* Ticket.from_json : json.loads then cls(**data)
from_json(doc, clock) ==
    IF doc.kind = "text"
    THEN [raised |-> "JSONDecodeError", ticket |-> None, fields |-> {}]
    ELSE IF doc.kind = "value"
    THEN [raised |-> "TypeError", ticket |-> None, fields |-> {}]
    ELSE IF EnvelopeErrors(doc.obj) # {}
    THEN [raised |-> "ValidationError", ticket |-> None, fields |-> EnvelopeErrors(doc.obj)]
    ELSE [raised |-> "", ticket |-> Some(ParsedTicket(doc.obj, clock)), fields |-> {}]

----------------------------------------------------------------------------
(* storage.py : ArtifactStore, as the files it keeps *)

\* the run ids that name a run directory in this model
RunIds == {"r1", "r2", "run_0a"}

Disk(s, t, e) == [store |-> s, tickets_file |-> t, events |-> e]

\* a store that keeps one ticket.json for all runs
save_ticket_OneFile(disk, ticket, clock) ==
    [ disk EXCEPT
        !.store = [r \in RunIds |-> Some(ticket)],
        !.tickets_file = Append(@, [snapshot |-> ticket, saved_at |-> clock]) ]

\* a store that keeps the snapshot it has when the new one has a shorter history
save_ticket_RefusesOlder(disk, ticket, clock) ==
    [ disk EXCEPT
        !.store = [@ EXCEPT ![ticket.run_id] =
                      IF @ # <<>> /\ Len(ticket.history) < Len(@[1].history)
                      THEN @ ELSE <<ticket>>],
        !.tickets_file = Append(@, [snapshot |-> ticket, saved_at |-> clock]) ]

save_ticket(disk, ticket, clock) ==
    [ disk EXCEPT
        !.store = [@ EXCEPT ![ticket.run_id] = Some(ticket)],
        !.tickets_file = Append(@, [snapshot |-> ticket, saved_at |-> clock]) ]

save_event(disk, run_id, event_type, state, details, clock) ==
    [ disk EXCEPT
        !.events = Append(@, [ run_id |-> run_id, event_type |-> event_type,
                               state |-> state, timestamp |-> clock,
                               details |-> details ]) ]

get_run_ticket(disk, run_id) == disk.store[run_id]

----------------------------------------------------------------------------
(* server.py *)

SCHEMA_VERSION == "1.0.0"

\* a response whose continue flag is derived from the next state alone
Response_ContinueUnlessComplete(updated_ticket, continue, reason, next_role, next_state, gate_result) ==
    [ updated_ticket |-> updated_ticket,
      continue |-> (updated_ticket # <<>> /\ next_state # COMPLETE),
      reason |-> reason, next_role |-> next_role, next_state |-> next_state,
      gate_result |-> gate_result, raised |-> "" ]

\* a response that always asks the agent to continue
Response_AlwaysContinue(updated_ticket, continue, reason, next_role, next_state, gate_result) ==
    [ updated_ticket |-> updated_ticket, continue |-> TRUE, reason |-> reason,
      next_role |-> next_role, next_state |-> next_state, gate_result |-> gate_result,
      raised |-> "" ]

\* _response; next_state is NoState for None, raised names an uncaught exception
\* a response that names no next state
Response_OmitsNextState(updated_ticket, continue, reason, next_role, next_state, gate_result) ==
    [ updated_ticket |-> updated_ticket, continue |-> continue, reason |-> reason,
      next_role |-> next_role, next_state |-> NoState, gate_result |-> gate_result,
      raised |-> "" ]

Response(updated_ticket, continue, reason, next_role, next_state, gate_result) ==
    [ updated_ticket |-> updated_ticket, continue |-> continue, reason |-> reason,
      next_role |-> next_role, next_state |-> next_state, gate_result |-> gate_result,
      raised |-> "" ]

\* the call ends with an exception that no handler catches
Uncaught(exception) ==
    [ updated_ticket |-> None, continue |-> FALSE, reason |-> "", next_role |-> "",
      next_state |-> NoState, gate_result |-> None, raised |-> exception ]

\* a history that puts the new entry first
_append_history_Prepends(ticket, entry) == <<entry>> \o ticket.history

_append_history(ticket, entry) == Append(ticket.history, entry)

_ticket_with_server_contract(ticket, state, clock) ==
    [ ticket EXCEPT
        !.state = state,
        !.agent_role = get_agent_role(state),
        !.required_fields = get_required_fields(state),
        !.next_stage_fields = get_next_stage_fields(state),
        !.updated_at = clock ]

\* create_initial_ticket; run_id is None or Some(string), uuid the value of uuid4
create_initial_ticket(disk, ticket_id, run_id, uuid, clock) ==
    LET run_id_value ==
            IF run_id = None \/ run_id[1] = <<>> THEN uuid ELSE Text(Strip(run_id[1]))
        ticket_id_value == Text(Strip(ticket_id))
        state == FETCH_TICKET
        ticket ==
            [ schema_version |-> SCHEMA_VERSION,
              run_id |-> run_id_value,
              ticket_id |-> ticket_id_value,
              state |-> state,
              agent_role |-> get_agent_role(state),
              required_fields |-> get_required_fields(state),
              payload |-> EmptyDict,
              next_stage_fields |-> get_next_stage_fields(state),
              validation |-> ValidationStatus("pending", <<>>),
              invalidation_report |-> None,
              history |-> << HistoryEntry(clock, NoState, state, "initialized",
                                          "Initial ticket.json issued by server") >>,
              created_at |-> clock,
              updated_at |-> clock ]
    IN IF run_id_value = ""
       THEN [raised |-> "run_id must not be empty", ticket |-> None, disk |-> disk]
       ELSE IF ticket_id_value = ""
       THEN [raised |-> "ticket_id must not be empty", ticket |-> None, disk |-> disk]
       ELSE [ raised |-> "", ticket |-> Some(ticket),
              disk |-> save_event(save_ticket(disk, ticket, clock), ticket.run_id, "begin",
                                  ticket.state, [ticket_id |-> ticket.ticket_id], clock) ]

\* _fail_closed; fields is a list of dotted paths
\* a fail-close that leaves the validation status as the document had it
_fail_closed_KeepsValidation(disk, ticket, reason_code, message, fields, clock) ==
    LET report == InvalidationReport(ticket.state, reason_code, FALSE, fields, message)
        blocked0 ==
            [ ticket EXCEPT
                !.state = FAIL_CLOSED,
                !.agent_role = get_agent_role(FAIL_CLOSED),
                !.required_fields = <<>>,
                !.next_stage_fields = <<>>,
                !.invalidation_report = Some(report),
                !.updated_at = clock ]
        blocked ==
            [ blocked0 EXCEPT
                !.history = _append_history(blocked0,
                    HistoryEntry(clock, ticket.state, FAIL_CLOSED, "blocked", message)) ]
    IN [ ticket |-> blocked,
         disk |-> save_event(save_ticket(disk, blocked, clock), blocked.run_id, "fail_closed",
                             blocked.state,
                             [reason_code |-> reason_code, fields |-> fields], clock) ]

\* a fail-close that stamps the server's schema_version on the envelope
_fail_closed_StampsVersion(disk, ticket, reason_code, message, fields, clock) ==
    LET report == InvalidationReport(ticket.state, reason_code, FALSE, fields, message)
        issue == [ field |-> IF fields # <<>> THEN fields[1] ELSE <<"payload">>,
                   code |-> reason_code, message |-> message ]
        blocked0 ==
            [ ticket EXCEPT
                !.schema_version = SCHEMA_VERSION,
                !.state = FAIL_CLOSED,
                !.agent_role = get_agent_role(FAIL_CLOSED),
                !.required_fields = <<>>,
                !.next_stage_fields = <<>>,
                !.validation = ValidationStatus("invalid_blocking", <<issue>>),
                !.invalidation_report = Some(report),
                !.updated_at = clock ]
        blocked ==
            [ blocked0 EXCEPT
                !.history = _append_history(blocked0,
                    HistoryEntry(clock, ticket.state, FAIL_CLOSED, "blocked", message)) ]
    IN [ ticket |-> blocked,
         disk |-> save_event(save_ticket(disk, blocked, clock), blocked.run_id, "fail_closed",
                             blocked.state,
                             [reason_code |-> reason_code, fields |-> fields], clock) ]

_fail_closed(disk, ticket, reason_code, message, fields, clock) ==
    LET report == InvalidationReport(ticket.state, reason_code, FALSE, fields, message)
        issue == [ field |-> IF fields # <<>> THEN fields[1] ELSE <<"payload">>,
                   code |-> reason_code, message |-> message ]
        blocked0 ==
            [ ticket EXCEPT
                !.state = FAIL_CLOSED,
                !.agent_role = get_agent_role(FAIL_CLOSED),
                !.required_fields = <<>>,
                !.next_stage_fields = <<>>,
                !.validation = ValidationStatus("invalid_blocking", <<issue>>),
                !.invalidation_report = Some(report),
                !.updated_at = clock ]
        blocked ==
            [ blocked0 EXCEPT
                !.history = _append_history(blocked0,
                    HistoryEntry(clock, ticket.state, FAIL_CLOSED, "blocked", message)) ]
    IN [ ticket |-> blocked,
         disk |-> save_event(save_ticket(disk, blocked, clock), blocked.run_id, "fail_closed",
                             blocked.state,
                             [reason_code |-> reason_code, fields |-> fields], clock) ]

get_gate_for_state(state) == "StagePayloadGate"

\* the version check made after the terminal check
VersionMismatch_AfterTerminal(ticket) ==
    ticket.schema_version # "1.0.0" /\ ~is_terminal(ticket.state)

\* submit_ticket_json, line 226: the version check
VersionMismatch(ticket) == ticket.schema_version # SCHEMA_VERSION

\* a retry that records nothing in the history
RetryTicket_NoHistory(ticket, state, gate_result, clock) ==
    [ ticket EXCEPT
        !.agent_role = get_agent_role(state),
        !.required_fields = get_required_fields(state),
        !.next_stage_fields = get_next_stage_fields(state),
        !.validation = ValidationStatus("invalid_fixable", gate_result.issues),
        !.invalidation_report = None,
        !.updated_at = clock ]

\* a retry that leaves the three derived fields as the document had them
RetryTicket_TrustsClient(ticket, state, gate_result, clock) ==
    [ ticket EXCEPT
        !.validation = ValidationStatus("invalid_fixable", gate_result.issues),
        !.invalidation_report = None,
        !.history = _append_history(ticket,
            HistoryEntry(clock, state, state, "retry",
                         "Fixable validation errors in payload")),
        !.updated_at = clock ]

\* submit_ticket_json, lines 265-283: the envelope patched in place for a retry
RetryTicket(ticket, state, gate_result, clock) ==
    [ ticket EXCEPT
        !.agent_role = get_agent_role(state),
        !.required_fields = get_required_fields(state),
        !.next_stage_fields = get_next_stage_fields(state),
        !.validation = ValidationStatus("invalid_fixable", gate_result.issues),
        !.invalidation_report = None,
        !.history = _append_history(ticket,
            HistoryEntry(clock, state, state, "retry",
                         "Fixable validation errors in payload")),
        !.updated_at = clock ]

\* an advance that leaves the payload in place
AdvanceTicket_KeepsPayload(ticket, state, transition_result, clock) ==
    [ ticket EXCEPT
        !.state = transition_result.next_state,
        !.agent_role = get_agent_role(transition_result.next_state),
        !.required_fields = get_required_fields(transition_result.next_state),
        !.next_stage_fields = get_next_stage_fields(transition_result.next_state),
        !.validation = ValidationStatus("valid", <<>>),
        !.invalidation_report = None,
        !.history = _append_history(ticket,
            HistoryEntry(clock, state, transition_result.next_state,
                         IF transition_result.next_state = COMPLETE
                         THEN "completed" ELSE "advanced",
                         transition_result.reason)),
        !.updated_at = clock ]

\* an advance whose history entry starts at the stage it arrives in
AdvanceTicket_FromNext(ticket, state, transition_result, clock) ==
    [ ticket EXCEPT
        !.state = transition_result.next_state,
        !.agent_role = get_agent_role(transition_result.next_state),
        !.required_fields = get_required_fields(transition_result.next_state),
        !.payload = EmptyDict,
        !.next_stage_fields = get_next_stage_fields(transition_result.next_state),
        !.validation = ValidationStatus("valid", <<>>),
        !.invalidation_report = None,
        !.history = _append_history(ticket,
            HistoryEntry(clock, transition_result.next_state, transition_result.next_state,
                         IF transition_result.next_state = COMPLETE
                         THEN "completed" ELSE "advanced",
                         transition_result.reason)),
        !.updated_at = clock ]

\* submit_ticket_json, lines 343-365: the envelope advanced to the next stage
AdvanceTicket(ticket, state, transition_result, clock) ==
    LET next_state == transition_result.next_state
        is_complete == next_state = COMPLETE
    IN [ ticket EXCEPT
           !.state = next_state,
           !.agent_role = get_agent_role(next_state),
           !.required_fields = get_required_fields(next_state),
           !.payload = EmptyDict,
           !.next_stage_fields = get_next_stage_fields(next_state),
           !.validation = ValidationStatus("valid", <<>>),
           !.invalidation_report = None,
           !.history = _append_history(ticket,
               HistoryEntry(clock, state, next_state,
                            IF is_complete THEN "completed" ELSE "advanced",
                            transition_result.reason)),
           !.updated_at = clock ]

\* submit_ticket_json, lines 216-380: the pipeline on a parsed envelope
SubmitParsed(disk0, ticket, clock) ==
    LET disk == save_event(save_ticket(disk0, ticket, clock), ticket.run_id, "submit",
                           ticket.state, [ticket_id |-> ticket.ticket_id], clock)
        state == ticket.state
        gate_result == validate(ticket.state, ticket.payload)
        transition_result == transition(state)
    IN IF VersionMismatch(ticket)
       THEN LET b == _fail_closed(disk, ticket, "schema_version_mismatch",
                                  "Expected schema_version", << <<"schema_version">> >>, clock)
            IN [ resp |-> Response(Some(b.ticket), FALSE,
                              "Blocking validation failure: schema version mismatch",
                              b.ticket.agent_role, b.ticket.state,
                              Some([ status |-> "stop",
                                     reasons |-> <<"schema_version mismatch">>,
                                     fixes |-> <<"Use schema_version and restart run">>,
                                     missing_or_invalid_fields |-> << <<"schema_version">> >>,
                                     issues |-> b.ticket.validation.errors ])),
                 disk |-> b.disk ]
       ELSE IF is_terminal(state)
       THEN LET terminal == _ticket_with_server_contract(ticket, state, clock)
            IN [ resp |-> Response(Some(terminal), FALSE, "Run is already in terminal state",
                              terminal.agent_role, terminal.state,
                              Some([ status |-> "stop",
                                     reasons |-> <<"State is terminal">> ])),
                 disk |-> save_ticket(disk, terminal, clock) ]
       ELSE IF gate_result.status = "retry"
       THEN LET fixed == RetryTicket(ticket, state, gate_result, clock)
            IN [ resp |-> Response(Some(fixed), TRUE,
                              "Fixable validation errors. Update required fields and resubmit ticket.json.",
                              fixed.agent_role, fixed.state, Some(gate_result)),
                 disk |-> save_event(save_ticket(disk, fixed, clock), fixed.run_id, "retry",
                                     fixed.state,
                                     [fields |-> gate_result.missing_or_invalid_fields], clock) ]
       ELSE IF gate_result.status = "stop"
       THEN LET b == _fail_closed(disk, ticket, "blocking_gate_failure",
                                  "Blocking gate failure. Cannot proceed.",
                                  gate_result.missing_or_invalid_fields, clock)
            IN [ resp |-> Response(Some(b.ticket), FALSE, "Blocking validation failure",
                              b.ticket.agent_role, b.ticket.state, Some(gate_result)),
                 disk |-> b.disk ]
       ELSE IF transition_result.status = "stop" \/ transition_result.next_state = NoState
       THEN LET terminal0 == _ticket_with_server_contract(ticket, state, clock)
                terminal ==
                    [ terminal0 EXCEPT
                        !.validation = ValidationStatus("valid", <<>>),
                        !.history = _append_history(terminal0,
                            HistoryEntry(clock, state, state,
                                         IF state = COMPLETE THEN "completed" ELSE "advanced",
                                         transition_result.reason)) ]
            IN [ resp |-> Response(Some(terminal), FALSE, transition_result.reason,
                              terminal.agent_role, terminal.state, Some(gate_result)),
                 disk |-> save_ticket(disk, terminal, clock) ]
       ELSE LET next_state == transition_result.next_state
                is_complete == next_state = COMPLETE
                updated == AdvanceTicket(ticket, state, transition_result, clock)
            IN [ resp |-> Response(Some(updated), ~is_complete, transition_result.reason,
                              updated.agent_role, updated.state, Some(gate_result)),
                 disk |-> save_event(save_ticket(disk, updated, clock), updated.run_id,
                                     "transition", updated.state,
                                     [from_state |-> state, to_state |-> next_state], clock) ]

\* submit_ticket_json
submit_ticket_json(disk, doc, clock) ==
    LET parsed == from_json(doc, clock)
    IN IF parsed.raised = "JSONDecodeError"
       THEN [ resp |-> Response(None, FALSE, "Invalid JSON", AGENT_ROLE_BAD_INPUT, NoState,
                           Some([ status |-> "retry",
                                  reasons |-> <<"ticket_json must be valid JSON">>,
                                  fixes |-> <<"Serialize ticket.json as valid JSON before submitting">>,
                                  missing_or_invalid_fields |-> << <<"ticket_json">> >> ])),
              disk |-> disk ]
       ELSE IF parsed.raised = "ValidationError"
       THEN [ resp |-> Response(None, FALSE, "Ticket schema validation failed",
                           AGENT_ROLE_BAD_INPUT, NoState,
                           Some([ status |-> "retry",
                                  reasons |-> <<"ticket_json does not match required envelope schema">>,
                                  fixes |-> <<"Ensure all required ticket envelope fields are present and non-empty">>,
                                  missing_or_invalid_fields |->
                                      LET names == SortNames(parsed.fields)
                                      IN [i \in 1..Len(names) |-> <<names[i]>>] ])),
              disk |-> disk ]
       ELSE IF parsed.raised # ""
       THEN [resp |-> Uncaught(parsed.raised), disk |-> disk]
       ELSE \* the pipeline runs on the one Ticket object the parse produced
            CHOOSE out \in {SubmitParsed(disk, ticket, clock) : ticket \in {parsed.ticket[1]}} : TRUE

\* a begin_run that refuses to generate a run_id
interlock_begin_run_NeedsRunId(disk, ticket_id, run_id, uuid, clock) ==
    LET made == create_initial_ticket(disk, ticket_id, run_id, uuid, clock)
    IN IF made.raised # "" \/ run_id = None \/ run_id = Some(<<>>)
       THEN [ resp |-> Response(None, FALSE, "run_id must not be empty", AGENT_ROLE_BAD_INPUT,
                           NoState,
                           Some([ status |-> "retry", reasons |-> <<"run_id must not be empty">>,
                                  fixes |-> <<"Provide non-empty ticket_id (and run_id if provided)">> ])),
              disk |-> disk ]
       ELSE [ resp |-> Response(made.ticket, TRUE, "Initialized ticket.json at fetch_ticket.",
                           made.ticket[1].agent_role, made.ticket[1].state, None),
              disk |-> made.disk ]

\* interlock_begin_run
interlock_begin_run(disk, ticket_id, run_id, uuid, clock) ==
    LET made == create_initial_ticket(disk, ticket_id, run_id, uuid, clock)
    IN IF made.raised # ""
       THEN [ resp |-> Response(None, FALSE, made.raised, AGENT_ROLE_BAD_INPUT, NoState,
                           Some([ status |-> "retry", reasons |-> <<made.raised>>,
                                  fixes |-> <<"Provide non-empty ticket_id (and run_id if provided)">> ])),
              disk |-> made.disk ]
       ELSE [ resp |-> Response(made.ticket, TRUE, "Initialized ticket.json at fetch_ticket.",
                           made.ticket[1].agent_role, made.ticket[1].state, None),
              disk |-> made.disk ]

----------------------------------------------------------------------------
(* The agent: the arguments it may send *)

Word(w) == JStr(<<w>>)
Words(w) == JList(<<Word(w)>>)
Blank == JStr(<<SP>>)

\* a payload that satisfies the schema of a working stage
ValidPayload(state) ==
    CASE state = FETCH_TICKET ->
            [ external_source |-> Word("jira"), external_ticket_id |-> Word("X-1"),
              title |-> Word("t"), description |-> JStr(<<SP, "d", SP>>) ]
      [] state = EXTRACT_REQUIREMENTS ->
            [ acceptance_criteria |-> Words("a"), constraints |-> Words("c"),
              unknowns |-> Words("u") ]
      [] state = SCOPE_CONTEXT ->
            [ retrieval_targets |-> Words("src"), retrieval_justification |-> Word("why") ]
      [] state = GATHER_EVIDENCE ->
            [ evidence_items |->
                JList(<< JObj([ source_id |-> Word("s1"), source_type |-> Word("file"),
                                locator |-> Word("l1"), snippet |-> Word("text") ]) >>) ]
      [] state = PROPOSE_PLAN ->
            [ plan_steps |->
                JList(<< JObj([ step_id |-> Word("p1"), intent |-> Word("do"),
                                requirement_refs |-> Words("a"),
                                evidence_refs |-> Words("s1") ]) >>) ]
      [] state = ACT_VIA_TOOLS ->
            [ actions_taken |-> Words("ran"), outputs |-> Words("out"),
              checkpoints |-> Words("cp") ]
      [] state = RECORD_AND_FINALIZE ->
            [ artifacts |-> Words("file"), final_summary |-> Word("done"),
              outcome |-> Word("success") ]

\* a payload that violates the schema of a working stage: its first field is
\* blank (a blank string, or a list holding one), and for the stages with more
\* than one field the last field is missing
InvalidPayload(state) ==
    CASE state = FETCH_TICKET ->
            [ external_source |-> Blank, external_ticket_id |-> Word("X-1"),
              title |-> Word("t") ]
      [] state = EXTRACT_REQUIREMENTS ->
            [ acceptance_criteria |-> JList(<<Blank>>), constraints |-> Words("c") ]
      [] state = SCOPE_CONTEXT ->
            [ retrieval_targets |-> JList(<<>>), unexpected |-> Word("x") ]
      [] state = GATHER_EVIDENCE ->
            [ evidence_items |->
                JList(<< JObj([ source_id |-> Blank, source_type |-> Word("file"),
                                locator |-> Word("l1") ]) >>) ]
      [] state = PROPOSE_PLAN ->
            [ plan_steps |->
                JList(<< JObj([ step_id |-> Word("p1"), intent |-> Word("do"),
                                requirement_refs |-> JList(<<Blank>>),
                                evidence_refs |-> Word("s1") ]) >>) ]
      [] state = ACT_VIA_TOOLS ->
            [ actions_taken |-> JNum, outputs |-> Words("out"),
              checkpoints |-> JList(<<Word("cp"), JNum>>) ]
      [] state = RECORD_AND_FINALIZE ->
            [ artifacts |-> Words("file"), final_summary |-> Word("done"),
              outcome |-> Word("done") ]

WorkingStages == DOMAIN TRANSITION_MAP

\* the payloads the agent tries in a document that declares `state`: for a
\* working stage one that fits and one that does not, for a terminal state
\* the payload of its copy and another one
PayloadChoices(ticket, state) ==
    IF state \in WorkingStages
    THEN {ValidPayload(state), InvalidPayload(state)}
    ELSE {ticket.payload, ValidPayload(FETCH_TICKET)}

\* the schema_version values the agent writes
Versions == { <<"1.0.0">>, <<SP, "1.0.0", SP>>, <<"0.9.0">> }
ForgedVersions == { <<"1.0.0">>, <<"0.9.0">> }

\* the payloads of a rewritten document: with the server's version and a
\* working stage one that fits the declared state and one that does not,
\* otherwise one that fits the first stage
ForgedPayloads(state, v) ==
    IF v = <<"1.0.0">> /\ state \in WorkingStages
    THEN {ValidPayload(state), InvalidPayload(state)}
    ELSE {ValidPayload(FETCH_TICKET)}

\* what the agent writes over the three server-derived fields when it tampers
Forged(obj) ==
    [ obj EXCEPT !.agent_role = <<"do anything">>,
                 !.required_fields = << <<"anything">> >>,
                 !.next_stage_fields = << <<"anything">>, <<"more">> >> ]

\* a document the agent makes of its copy of a server-issued envelope: it
\* declares a state, a version and a payload, the derived fields forged or not
DocumentFrom(ticket, st, v, p, forge) ==
    LET obj == [to_json(ticket) EXCEPT !.state = Raw(st), !.schema_version = v, !.payload = p]
    IN ObjectDoc(IF forge THEN Forged(obj) ELSE obj)

\* the smallest object the envelope schema accepts, written without begin_run
MinimalObject ==
    [ run_id |-> <<"r1">>, ticket_id |-> <<"T-1">>, state |-> <<SP, FETCH_TICKET>>,
      agent_role |-> <<"mine">> ]

\* strings that are no envelope
MalformedDocuments ==
    { TextDoc, ValueDoc,
      ObjectDoc([MinimalObject EXCEPT !.state = <<"review">>]),
      ObjectDoc([MinimalObject EXCEPT !.agent_role = <<SP>>]),
      ObjectDoc([ run_id |-> <<"r1">>, ticket_id |-> <<"T-1">>,
                  required_fields |-> << <<"title">>, <<SP>> >>,
                  unexpected |-> <<"x">> ]) }

\* the ticket_id and run_id arguments of begin_run
TicketIdArgs == { <<SP, "T-1">>, <<SP>> }
RunIdArgs == { Some(<<SP>>), Some(<<"r1", SP>>) }
\* the values uuid4 yields
GeneratedRunIds == {"run_0a"}

----------------------------------------------------------------------------
(* The calls *)

NoRequest == [op |-> "none", args |-> <<>>, base |-> None]

\* the callers that may submit at the same time, and a caller with no call in flight
Callers == {"a", "b"}
Idle == [phase |-> "idle", done |-> 0, out |-> None]
NoResponse == Response(None, FALSE, "", "", NoState, None)

Init ==
    /\ store = [r \in RunIds |-> None]
    /\ tickets_file = <<>>
    /\ events = <<>>
    /\ now = 0
    /\ held = [r \in RunIds |-> None]
    /\ req = NoRequest
    /\ resp = NoResponse
    /\ inflight = [c \in Callers |-> Idle]

\* the agent saves the ticket.json of a response over its copy
Receive(response) ==
    IF response.updated_ticket # None
    THEN [held EXCEPT ![response.updated_ticket[1].run_id] = response.updated_ticket]
    ELSE held

\* the call returns: the files are as the handler left them, the agent has the response
Returns(result) ==
    \E out \in {result} :
        /\ store' = out.disk.store
        /\ tickets_file' = out.disk.tickets_file
        /\ events' = out.disk.events
        /\ resp' = out.resp
        /\ held' = Receive(out.resp)
        /\ now' = now + 1
        /\ inflight' = inflight

\* the tool interlock_begin_run(ticket_id, run_id)
BeginRun(ticket_id, run_id) ==
    /\ now < MaxCalls
    /\ \E uuid \in GeneratedRunIds :
          Returns(interlock_begin_run(Disk(store, tickets_file, events),
                                      ticket_id, run_id, uuid, now))
    /\ req' = [ op |-> "begin_run", args |-> [ticket_id |-> ticket_id, run_id |-> run_id],
                base |-> None ]

\* the tool interlock_submit_ticket(ticket_json); base is the copy the agent
\* made the document of, None when it made it of nothing
Submit(doc, base) ==
    /\ now < MaxCalls
    /\ Returns(submit_ticket_json(Disk(store, tickets_file, events), doc, now))
    /\ req' = [op |-> "submit", args |-> [ticket_json |-> doc], base |-> base]

\* the agent sends back its copy of the latest envelope of a run, with a
\* payload and a schema_version of its choice
SubmitEcho ==
    \E r \in RunIds :
        /\ held[r] # None
        /\ \E v \in Versions :
              \E p \in PayloadChoices(held[r][1], held[r][1].state) :
                  Submit(DocumentFrom(held[r][1], held[r][1].state, v, p, FALSE), held[r])

\* the agent rewrites its copy: any known state in the state field, and its
\* own values in the three server-derived fields
SubmitForged ==
    \E r \in RunIds :
        /\ held[r] # None
        /\ \E st \in State, v \in ForgedVersions :
              \E p \in ForgedPayloads(st, v) :
                  Submit(DocumentFrom(held[r][1], st, v, p, TRUE), held[r])

SubmitMalformed == \E doc \in MalformedDocuments : Submit(doc, None)

SubmitMinimal == Submit(ObjectDoc(MinimalObject), None)

Begin == \E ticket_id \in TicketIdArgs, run_id \in RunIdArgs : BeginRun(ticket_id, run_id)

Next == Begin \/ SubmitEcho \/ SubmitForged \/ SubmitMalformed \/ SubmitMinimal

Spec == Init /\ [][Next]_vars

----------------------------------------------------------------------------
(* A run from begin_run to complete *)

\* the submits that follow the begin_run of the scenario
MaxSubmits == 7

\* a JSON value with whitespace around every string in it
RECURSIVE Pad(_)
Pad(v) ==
    IF v.t = "str" THEN JStr(<<SP>> \o v.v \o <<SP>>)
    ELSE IF v.t = "list" THEN JList([i \in 1..Len(v.v) |-> Pad(v.v[i])])
    ELSE IF v.t = "obj" THEN JObj([k \in DOMAIN v.v |-> Pad(v.v[k])])
    ELSE v

\* the payloads that fit the stage of the copy: as they are, and padded
FittingPayloads(ticket) ==
    IF ticket.state \in WorkingStages
    THEN { ValidPayload(ticket.state),
           [k \in DOMAIN ValidPayload(ticket.state) |-> Pad(ValidPayload(ticket.state)[k])] }
    ELSE {ticket.payload}

ScenarioTicketIds == TicketIdArgs \cup {<<"T-2">>}
\* run_id absent, empty, whitespace-only, padded, plain
ScenarioRunIds == {None, Some(<<>>), Some(<<SP>>), Some(<<"r1", SP>>), Some(<<"r2">>)}

\* the first call of the scenario is begin_run
ScenarioBegin ==
    /\ now = 0
    /\ \E ticket_id \in ScenarioTicketIds, run_id \in ScenarioRunIds :
          BeginRun(ticket_id, run_id)

\* every later call echoes the latest envelope with a payload that fits its stage
ScenarioSubmit ==
    \E r \in RunIds :
        /\ held[r] # None
        /\ now <= MaxSubmits
        /\ \E v \in {<<"1.0.0">>, <<SP, "1.0.0", SP>>}, p \in FittingPayloads(held[r][1]) :
              LET doc == DocumentFrom(held[r][1], held[r][1].state, v, p, FALSE)
              IN /\ Returns(submit_ticket_json(Disk(store, tickets_file, events), doc, now))
                 /\ req' = [op |-> "submit", args |-> [ticket_json |-> doc], base |-> held[r]]

ScenarioNext == ScenarioBegin \/ ScenarioSubmit

Scenario == Init /\ [][ScenarioNext]_vars

----------------------------------------------------------------------------
(* Two runs side by side *)

\* the number of calls made while two runs are interleaved
MaxRunCalls == 4

RunsRunIds == {Some(<<"r1", SP>>), Some(<<"r2">>)}
RunsVersions == {<<"1.0.0">>, <<"0.9.0">>}

\* begin_run for one of the two runs, at any time (again for a run that exists too)
RunsBegin ==
    /\ now < MaxRunCalls
    /\ \E run_id \in RunsRunIds, uuid \in GeneratedRunIds :
          /\ Returns(interlock_begin_run(Disk(store, tickets_file, events),
                                         <<"T-1">>, run_id, uuid, now))
          /\ req' = [ op |-> "begin_run",
                      args |-> [ticket_id |-> <<"T-1">>, run_id |-> run_id], base |-> None ]

\* a submit for either run: its latest envelope with a payload and a version
RunsSubmit ==
    \E r \in RunIds :
        /\ held[r] # None
        /\ now < MaxRunCalls
        /\ \E v \in RunsVersions, p \in PayloadChoices(held[r][1], held[r][1].state) :
              LET doc == DocumentFrom(held[r][1], held[r][1].state, v, p, FALSE)
              IN /\ Returns(submit_ticket_json(Disk(store, tickets_file, events), doc, now))
                 /\ req' = [op |-> "submit", args |-> [ticket_json |-> doc], base |-> held[r]]

RunsNext == RunsBegin \/ RunsSubmit

Runs == Init /\ [][RunsNext]_vars

----------------------------------------------------------------------------
(* Two submits of one run at the same time, store write by store write *)

EmptyDisk == Disk([r \in RunIds |-> None], <<>>, <<>>)

\* the run exists: begin_run("T-1", "r1") has returned and both callers hold
\* its envelope
RaceInit ==
    \E out \in {interlock_begin_run(EmptyDisk, <<"T-1">>, Some(<<"r1">>),
                                    CHOOSE u \in GeneratedRunIds : TRUE, 0)} :
        /\ store = out.disk.store
        /\ tickets_file = out.disk.tickets_file
        /\ events = out.disk.events
        /\ now = 1
        /\ held = [r \in RunIds |-> IF r = "r1" THEN out.resp.updated_ticket ELSE None]
        /\ req = [ op |-> "begin_run",
                   args |-> [ticket_id |-> <<"T-1">>, run_id |-> Some(<<"r1">>)],
                   base |-> None ]
        /\ resp = out.resp
        /\ inflight = [c \in Callers |-> Idle]

\* the store calls a submit makes, in program order: save_ticket, save_event,
\* then the save_ticket and (but for the terminal short-circuit) the
\* save_event of the branch taken
Writes(out) == Len(out.disk.tickets_file) + Len(out.disk.events)

\* the files after the k-th store call of the submit
AfterWrite(disk, out, k) ==
    IF k % 2 = 1
    THEN LET record == out.disk.tickets_file[(k + 1) \div 2]
         IN save_ticket(disk, record.snapshot, record.saved_at)
    ELSE LET event == out.disk.events[k \div 2]
         IN save_event(disk, event.run_id, event.event_type, event.state, event.details,
                       event.timestamp)

\* caller c enters submit_ticket_json with its copy of the envelope, a payload
\* and a version; the document parses, nothing is written yet
RaceCall(c) ==
    /\ inflight[c].phase = "idle"
    /\ \E v \in RunsVersions, p \in PayloadChoices(held["r1"][1], held["r1"][1].state) :
          LET doc == DocumentFrom(held["r1"][1], held["r1"][1].state, v, p, FALSE)
          IN inflight' = [inflight EXCEPT ![c] =
                 [ phase |-> "writing", done |-> 0,
                   out |-> submit_ticket_json(EmptyDisk, doc, now) ]]
    /\ now' = now + 1
    /\ UNCHANGED <<store, tickets_file, events, held, req, resp>>

\* the next store call of caller c's submit
RaceWrite(c) ==
    /\ inflight[c].phase = "writing"
    /\ inflight[c].done < Writes(inflight[c].out)
    /\ \E disk \in {AfterWrite(Disk(store, tickets_file, events), inflight[c].out,
                                inflight[c].done + 1)} :
          /\ store' = disk.store
          /\ tickets_file' = disk.tickets_file
          /\ events' = disk.events
    /\ inflight' = [inflight EXCEPT ![c].done = @ + 1]
    /\ UNCHANGED <<now, held, req, resp>>

\* caller c's submit returns its response
RaceReturn(c) ==
    /\ inflight[c].phase = "writing"
    /\ inflight[c].done = Writes(inflight[c].out)
    /\ inflight' = [inflight EXCEPT ![c].phase = "returned"]
    /\ UNCHANGED <<store, tickets_file, events, now, held, req, resp>>

RaceNext == \E c \in Callers : RaceCall(c) \/ RaceWrite(c) \/ RaceReturn(c)

Race == RaceInit /\ [][RaceNext]_vars

----------------------------------------------------------------------------
(* The gate alone: StagePayloadGate.validate on a state and a payload *)

\* the blank items put in a list at most
MaxBlanks == 2

\* the payload without the key k, and with the key k holding v
Without(payload, k) == [x \in DOMAIN payload \ {k} |-> payload[x]]
WithKey(payload, k, v) ==
    [x \in DOMAIN payload \cup {k} |-> IF x = k THEN v ELSE payload[x]]

\* a value of the same shape with every string blank and n items in every list
RECURSIVE Blanked(_, _)
Blanked(v, n) ==
    IF v.t = "str" THEN Blank
    ELSE IF v.t = "list" THEN JList([i \in 1..n |-> Blanked(v.v[1], n)])
    ELSE IF v.t = "obj" THEN JObj([k \in DOMAIN v.v |-> Blanked(v.v[k], n)])
    ELSE v

\* a list value with its items in front of n blank strings
BlanksAfter(v, n) == JList(v.v \o [i \in 1..n |-> Blank])

\* the payloads handed to the gate in a ticket of the given state: for a
\* working stage the fitting one (plain and padded), the empty one, one with
\* an unknown key, one per required key left out (with and without an unknown
\* key), one per key blanked or mistyped, all keys blanked, lists ending in
\* blank items, and the fitting payloads of the other stages
GatePayloads(state) ==
    IF state \notin WorkingStages THEN {EmptyDict, ValidPayload(FETCH_TICKET)}
    ELSE LET p == ValidPayload(state)
             keys == DOMAIN p
             lists == {k \in keys : p[k].t = "list" /\ p[k].v[1].t = "str"}
         IN { p, [k \in keys |-> Pad(p[k])], InvalidPayload(state), EmptyDict,
              WithKey(p, "unexpected", Word("x")) }
            \cup { Without(p, k) : k \in keys }
            \cup { WithKey(Without(p, k), "unexpected", Word("x")) : k \in keys }
            \cup { WithKey(p, k, Blanked(p[k], n)) : k \in keys, n \in 1..MaxBlanks }
            \cup { [k \in keys |-> Blanked(p[k], n)] : n \in 1..MaxBlanks }
            \cup { WithKey(p, k, BlanksAfter(p[k], n)) : k \in lists, n \in 1..MaxBlanks }
            \cup { WithKey(p, k, JNum) : k \in keys }
            \cup { ValidPayload(other) : other \in WorkingStages \ {state} }

\* gate.validate(ticket) for a ticket with this state and payload
Validate ==
    \E state \in State :
        \E payload \in GatePayloads(state) :
            /\ req' = [ op |-> "validate", args |-> [state |-> state, payload |-> payload],
                        base |-> None ]
            /\ resp' = [NoResponse EXCEPT !.gate_result = Some(validate(state, payload))]
            /\ UNCHANGED <<store, tickets_file, events, now, held, inflight>>

GateNext == Validate

Gate == Init /\ [][GateNext]_vars

----------------------------------------------------------------------------
(* One run of echoed envelopes: any payload, any schema_version *)

\* the submits of the run that may fail to advance it
MaxDetours == 3

\* the submits made so far that did not advance the run: all the calls after
\* begin_run, less the advances its history records
Detours(ticket) ==
    (now - 1) - Cardinality({i \in 1..Len(ticket.history) :
                                ticket.history[i].result \in {"advanced", "completed"}})

EchoBegin ==
    /\ now = 0
    /\ \E uuid \in GeneratedRunIds :
          Returns(interlock_begin_run(Disk(store, tickets_file, events),
                                      <<"T-1">>, Some(<<"r1">>), uuid, now))
    /\ req' = [ op |-> "begin_run",
                args |-> [ticket_id |-> <<"T-1">>, run_id |-> Some(<<"r1">>)], base |-> None ]

\* the latest envelope sent back with the server's version and a payload that
\* fits its stage
EchoAdvance ==
    /\ held["r1"] # None
    /\ held["r1"][1].state \in WorkingStages
    /\ LET doc == DocumentFrom(held["r1"][1], held["r1"][1].state, <<"1.0.0">>,
                               ValidPayload(held["r1"][1].state), FALSE)
       IN /\ Returns(submit_ticket_json(Disk(store, tickets_file, events), doc, now))
          /\ req' = [op |-> "submit", args |-> [ticket_json |-> doc], base |-> held["r1"]]

\* the latest envelope sent back with another version, with a payload that
\* does not fit, or after the run has ended
EchoDetour ==
    /\ held["r1"] # None
    /\ Detours(held["r1"][1]) < MaxDetours
    /\ \E v \in Versions, p \in PayloadChoices(held["r1"][1], held["r1"][1].state) :
          /\ held["r1"][1].state \in WorkingStages
                => v = <<"0.9.0">> \/ p = InvalidPayload(held["r1"][1].state)
          /\ LET doc == DocumentFrom(held["r1"][1], held["r1"][1].state, v, p, FALSE)
             IN /\ Returns(submit_ticket_json(Disk(store, tickets_file, events), doc, now))
                /\ req' = [op |-> "submit", args |-> [ticket_json |-> doc], base |-> held["r1"]]

EchoNext == EchoBegin \/ EchoAdvance \/ EchoDetour

Echo == Init /\ [][EchoNext]_vars

----------------------------------------------------------------------------
(* One run of echoed envelopes with the server's version, and an agent that  *)
(* does not give up: at every stage it eventually sends a payload that fits  *)

\* the unfitting payloads the agent sends in the run at most
MaxRetries == 2

\* the latest envelope sent back with the server's version and a payload that
\* does not fit its stage
ProgressRetry ==
    /\ held["r1"] # None
    /\ held["r1"][1].state \in WorkingStages
    /\ Detours(held["r1"][1]) < MaxRetries
    /\ LET doc == DocumentFrom(held["r1"][1], held["r1"][1].state, <<"1.0.0">>,
                               InvalidPayload(held["r1"][1].state), FALSE)
       IN /\ Returns(submit_ticket_json(Disk(store, tickets_file, events), doc, now))
          /\ req' = [op |-> "submit", args |-> [ticket_json |-> doc], base |-> held["r1"]]

ProgressNext == EchoBegin \/ EchoAdvance \/ ProgressRetry

Progress == Init /\ [][ProgressNext]_vars /\ WF_vars(EchoAdvance)

----------------------------------------------------------------------------
(* What the claims speak of *)

\* the call in flight is a submit whose document parses as an envelope
SubmittedEnvelope ==
    /\ req.op = "submit"
    /\ from_json(req.args.ticket_json, now - 1).raised = ""

\* the envelope that document parses to, and the envelope returned
Sent == from_json(req.args.ticket_json, now - 1).ticket[1]
HasReturned == resp.updated_ticket # None
Returned == resp.updated_ticket[1]

\* the fixed chain of the workflow, as the specification words it
Chain ==
    << FETCH_TICKET, EXTRACT_REQUIREMENTS, SCOPE_CONTEXT, GATHER_EVIDENCE,
       PROPOSE_PLAN, ACT_VIA_TOOLS, RECORD_AND_FINALIZE, COMPLETE >>

SevenStages == {Chain[i] : i \in 1..7}

SuccessorOf(s) == Chain[(CHOOSE i \in 1..7 : Chain[i] = s) + 1]

\* the document is the agent's copy of a server-issued envelope, sent back
\* verbatim or with another payload
EchoedVerbatim ==
    /\ req.op = "submit"
    /\ req.base # None
    /\ req.args.ticket_json = ObjectDoc(to_json(req.base[1]))

EchoedWithPayload ==
    /\ req.op = "submit"
    /\ req.base # None
    /\ req.args.ticket_json.kind = "object"
    /\ [req.args.ticket_json.obj EXCEPT !.payload = req.base[1].payload] = to_json(req.base[1])

----------------------------------------------------------------------------
(* C1 *)

\* C1: a submit of an envelope with the server's schema_version and a working
\* stage s returns an envelope whose state is s (retry) or the successor of s
\* in the chain (pass), never another stage.
C1_RetryOrOneStep ==
    SubmittedEnvelope =>
    LET sent == Sent
    IN (sent.schema_version = SCHEMA_VERSION /\ sent.state \in SevenStages)
       => /\ HasReturned
          /\ Returned.state \in {sent.state, SuccessorOf(sent.state)}

\* a forged document declaring scope_context passes the gate and gets gather_evidence
C1_Witness ==
    /\ SubmittedEnvelope
    /\ Sent.schema_version = SCHEMA_VERSION
    /\ Sent.state = SCOPE_CONTEXT
    /\ HasReturned
    /\ Returned.state = GATHER_EVIDENCE

----------------------------------------------------------------------------
(* C2 *)

\* C2: for a run started by begin_run, a submit changes the state of the run's
\* persisted snapshot only from a working stage to its successor or to
\* fail_closed, whatever state the agent writes into the document.
C2_NoStageSkipped ==
    [][ \A r \in RunIds :
          ( /\ req'.op = "submit"
            /\ store[r] # None
            /\ store'[r] # None
            /\ \E i \in 1..Len(events) :
                  events[i].run_id = r /\ events[i].event_type = "begin"
            /\ store'[r][1].state # store[r][1].state )
          => /\ store[r][1].state \in SevenStages
             /\ store'[r][1].state \in {SuccessorOf(store[r][1].state), FAIL_CLOSED} ]_vars

----------------------------------------------------------------------------
(* C3 *)

\* C3: a submit of an envelope whose schema_version is not the server's returns
\* an envelope in fail_closed with reason_code schema_version_mismatch and
\* continue=false, whatever the declared state and the payload.
C3_VersionCheckedFirst ==
    (SubmittedEnvelope /\ Sent.schema_version # SCHEMA_VERSION)
    => /\ HasReturned
       /\ Returned.state = FAIL_CLOSED
       /\ Returned.invalidation_report # None
       /\ Returned.invalidation_report[1].reason_code = "schema_version_mismatch"
       /\ resp.continue = FALSE

\* a stale document that declares complete is failed closed, not short-circuited
C3_Witness ==
    /\ SubmittedEnvelope
    /\ Sent.schema_version # SCHEMA_VERSION
    /\ Sent.state = COMPLETE
    /\ HasReturned
    /\ Returned.state = FAIL_CLOSED
    /\ Returned.invalidation_report[1].state = COMPLETE

----------------------------------------------------------------------------
(* C4 *)

\* C4: a terminal envelope the server returned and the agent sends back verbatim
\* comes back with the same state and the same history length.
C4_TerminalEchoIdempotent ==
    (EchoedVerbatim /\ req.base[1].state \in {COMPLETE, FAIL_CLOSED})
    => /\ HasReturned
       /\ Returned.state = req.base[1].state
       /\ Len(Returned.history) = Len(req.base[1].history)

----------------------------------------------------------------------------
(* C5 *)

\* C5: once the agent holds a fail_closed envelope of the server, sending it
\* back with any payload returns an envelope in fail_closed with continue=false.
C5_FailClosedAbsorbing ==
    (EchoedWithPayload /\ req.base[1].state = FAIL_CLOSED)
    => /\ HasReturned
       /\ Returned.state = FAIL_CLOSED
       /\ resp.continue = FALSE

\* a fail_closed envelope was sent back with a payload other than the one it held
C5_Witness ==
    /\ EchoedWithPayload
    /\ req.base[1].state = FAIL_CLOSED
    /\ req.args.ticket_json.obj.payload # req.base[1].payload
    /\ HasReturned
    /\ Returned.state = FAIL_CLOSED

----------------------------------------------------------------------------
(* C6 *)

\* C6: once a server-issued envelope carries an invalidation report, sending it
\* back returns the same report.
C6_ReportImmutable ==
    (EchoedVerbatim /\ req.base[1].invalidation_report # None)
    => /\ HasReturned
       /\ Returned.invalidation_report = req.base[1].invalidation_report

----------------------------------------------------------------------------
(* C7 *)

\* C7: when the returned envelope's state differs from the submitted one's,
\* the returned payload is empty.
C7_PayloadClearedOnStateChange ==
    (HasReturned /\ SubmittedEnvelope /\ Returned.state # Sent.state)
    => DOMAIN Returned.payload = {}

----------------------------------------------------------------------------
(* C8 *)

\* C8: when the gate passes at working stage s, the returned envelope is in the
\* successor of s with an empty payload and validation valid without errors,
\* its history is the submitted history plus one entry from s to the
\* successor, tagged completed if the successor is complete and advanced
\* otherwise, and continue is true exactly when the successor is not complete.
C8_GatePassAdvances ==
    SubmittedEnvelope =>
    LET sent == Sent
    IN ( /\ sent.schema_version = SCHEMA_VERSION
         /\ sent.state \in SevenStages
         /\ validate(sent.state, sent.payload).status = "pass" )
       => /\ HasReturned
          /\ Returned.state = SuccessorOf(sent.state)
          /\ DOMAIN Returned.payload = {}
          /\ Returned.validation = [status |-> "valid", errors |-> <<>>]
          /\ Len(Returned.history) = Len(sent.history) + 1
          /\ SubSeq(Returned.history, 1, Len(sent.history)) = sent.history
          /\ LET last == Returned.history[Len(Returned.history)]
             IN /\ last.from_state = sent.state
                /\ last.to_state = SuccessorOf(sent.state)
                /\ last.result = IF SuccessorOf(sent.state) = COMPLETE
                                 THEN "completed" ELSE "advanced"
          /\ resp.continue = (SuccessorOf(sent.state) # COMPLETE)

\* the gate passed at record_and_finalize: complete, tagged completed, no continue
C8_Witness ==
    /\ SubmittedEnvelope
    /\ Sent.schema_version = SCHEMA_VERSION
    /\ Sent.state = RECORD_AND_FINALIZE
    /\ validate(Sent.state, Sent.payload).status = "pass"
    /\ HasReturned
    /\ Returned.state = COMPLETE
    /\ Returned.history[Len(Returned.history)].result = "completed"
    /\ ~resp.continue

----------------------------------------------------------------------------
(* C9 *)

\* C9: when the gate answers retry at working stage s, the returned envelope is
\* still in s, its validation is invalid_fixable with the gate's issues, its
\* history is the submitted history plus one retry entry from s to s, and
\* continue is true; the stage can be submitted again.
C9_GateRetryStays ==
    SubmittedEnvelope =>
    LET sent == Sent
        gate_result == validate(sent.state, sent.payload)
    IN ( /\ sent.schema_version = SCHEMA_VERSION
         /\ sent.state \in SevenStages
         /\ gate_result.status = "retry" )
       => /\ HasReturned
          /\ Returned.state = sent.state
          /\ Returned.validation.status = "invalid_fixable"
          /\ Returned.validation.errors = gate_result.issues
          /\ Returned.validation.errors # <<>>
          /\ Len(Returned.history) = Len(sent.history) + 1
          /\ SubSeq(Returned.history, 1, Len(sent.history)) = sent.history
          /\ LET last == Returned.history[Len(Returned.history)]
             IN /\ last.from_state = sent.state
                /\ last.to_state = sent.state
                /\ last.result = "retry"
          /\ resp.continue = TRUE

\* the same stage was retried twice in a row
C9_Witness ==
    /\ SubmittedEnvelope
    /\ Sent.state = FETCH_TICKET
    /\ HasReturned
    /\ Returned.state = FETCH_TICKET
    /\ resp.continue
    /\ Len(Returned.history) = 3
    /\ Returned.history[2].result = "retry"
    /\ Returned.history[3].result = "retry"

----------------------------------------------------------------------------
(* C10 *)

\* C10: in every envelope begin_run or submit returns, agent_role,
\* required_fields and next_stage_fields are the registry's values for the
\* envelope's state, whatever the submitted document carried in them.
C10_ContractServerDerived ==
    HasReturned
    => /\ Returned.agent_role = get_agent_role(Returned.state)
       /\ Returned.required_fields = get_required_fields(Returned.state)
       /\ Returned.next_stage_fields = get_next_stage_fields(Returned.state)

\* a document with forged derived fields came back from the retry branch
C10_Witness ==
    /\ SubmittedEnvelope
    /\ Sent.agent_role = "do anything"
    /\ Sent.required_fields = <<"anything">>
    /\ HasReturned
    /\ Returned.state \in SevenStages
    /\ Returned.validation.status = "invalid_fixable"
    /\ Returned.agent_role # Sent.agent_role

----------------------------------------------------------------------------
(* C11 *)

\* C11: every snapshot written to the store carries the registry's agent_role,
\* required_fields and next_stage_fields for its state, never the values a
\* submitted document held in them.
C11_PersistedContractDerived ==
    \A i \in 1..Len(tickets_file) :
        LET t == tickets_file[i].snapshot
        IN /\ t.agent_role = get_agent_role(t.state)
           /\ t.required_fields = get_required_fields(t.state)
           /\ t.next_stage_fields = get_next_stage_fields(t.state)

----------------------------------------------------------------------------
(* C12 *)

\* C12: for every submit that returns an envelope, the submitted history is a
\* prefix of the returned history, so the returned one is at least as long.
C12_HistoryAppendOnly ==
    (HasReturned /\ SubmittedEnvelope) =>
    LET sent == Sent
    IN /\ Len(Returned.history) >= Len(sent.history)
       /\ SubSeq(Returned.history, 1, Len(sent.history)) = sent.history

\* a history of two entries came back with a third one after them
C12_Witness ==
    /\ SubmittedEnvelope
    /\ Len(Sent.history) = 2
    /\ HasReturned
    /\ Len(Returned.history) = 3
    /\ SubSeq(Returned.history, 1, 2) = Sent.history
    /\ Returned.history[3] # Returned.history[2]

----------------------------------------------------------------------------
(* C13 *)

\* C13: after begin_run, the k-th of seven consecutive submits that echo the
\* latest envelope with a fitting payload returns the (k+1)-th state of the
\* chain, with continue true for k < 7 and false for k = 7, and a history of
\* one initialized entry followed by k entries along the chain, each tagged
\* advanced or completed; the seventh is complete with eight entries.
C13_SevenSubmitsComplete ==
    (req.op = "submit" /\ now - 1 <= 7) =>
    LET k == now - 1
    IN /\ HasReturned
       /\ Returned.state = Chain[k + 1]
       /\ resp.continue = (k < 7)
       /\ Len(Returned.history) = k + 1
       /\ Returned.history[1].result = "initialized"
       /\ \A i \in 2..(k + 1) :
             /\ Returned.history[i].result \in {"advanced", "completed"}
             /\ Returned.history[i].from_state = Chain[i - 1]
             /\ Returned.history[i].to_state = Chain[i]

\* the seventh submit came back complete
C13_Witness ==
    /\ req.op = "submit"
    /\ now = 8
    /\ HasReturned
    /\ Returned.state = COMPLETE
    /\ ~resp.continue
    /\ Len(Returned.history) = 8
    /\ Returned.history[8].result = "completed"

----------------------------------------------------------------------------
(* C14 *)

\* C14: transition returns pass with the successor in the fixed chain for each
\* of the seven working stages, and stop with no next stage for complete and
\* fail_closed; the stage a submit declares gets that same answer.
C14_TransitionIsChain ==
    /\ \A s \in SevenStages :
          LET transition_result == transition(s)
          IN /\ transition_result.status = "pass"
             /\ transition_result.next_state = SuccessorOf(s)
    /\ \A s \in {COMPLETE, FAIL_CLOSED} :
          LET transition_result == transition(s)
          IN /\ transition_result.status = "stop"
             /\ transition_result.next_state = NoState
    /\ State = SevenStages \cup {COMPLETE, FAIL_CLOSED}
    /\ SubmittedEnvelope =>
          LET sent == Sent
          IN transition(sent.state).status =
                 (IF sent.state \in {COMPLETE, FAIL_CLOSED} THEN "stop" ELSE "pass")

\* the transition of act_via_tools was applied to a submitted envelope
C14_Witness ==
    /\ SubmittedEnvelope
    /\ Sent.state = ACT_VIA_TOOLS
    /\ HasReturned
    /\ Returned.state = transition(ACT_VIA_TOOLS).next_state
    /\ Returned.state = RECORD_AND_FINALIZE

----------------------------------------------------------------------------
(* C15 *)

\* C15: every submit, whatever string it is given, returns a response object;
\* none ends with an exception that reaches the caller.
C15_SubmitAlwaysResponds ==
    req.op = "submit" => resp.raised = ""

----------------------------------------------------------------------------
(* C16 *)

\* the document is undecodable, or an object in which a required envelope
\* field is missing or empty, or whose state is not a known one
StructurallyBad(doc) ==
    \/ doc.kind = "text"
    \/ /\ doc.kind = "object"
       /\ \/ \E k \in {"run_id", "ticket_id", "state", "agent_role"} :
                k \notin DOMAIN doc.obj \/ Strip(doc.obj[k]) = <<>>
          \/ "state" \in DOMAIN doc.obj /\ Text(Strip(doc.obj.state)) \notin State

\* C16: a submit of an undecodable or structurally bad document returns
\* continue=false, no envelope and a gate result of status retry, and leaves
\* the persisted snapshot of every run as it was.
C16_RejectedLeavesStore ==
    [][ (req'.op = "submit" /\ StructurallyBad(req'.args.ticket_json))
        => /\ resp'.raised = ""
           /\ resp'.continue = FALSE
           /\ resp'.updated_ticket = None
           /\ resp'.gate_result # None
           /\ resp'.gate_result[1].status = "retry"
           /\ store' = store ]_vars

\* a document with an unknown state was rejected while a run was persisted
C16_Witness ==
    /\ req.op = "submit"
    /\ StructurallyBad(req.args.ticket_json)
    /\ req.args.ticket_json.kind = "object"
    /\ "state" \in DOMAIN req.args.ticket_json.obj
    /\ req.args.ticket_json.obj.state = <<"review">>
    /\ store["r1"] # None
    /\ resp.gate_result # None
    /\ resp.gate_result[1].status = "retry"
    /\ resp.gate_result[1].missing_or_invalid_fields = << <<"state">> >>

----------------------------------------------------------------------------
(* C17 *)

\* C17: every submit call that returns, on whichever path, writes an envelope
\* snapshot and appends an event record, and when it returns an envelope the
\* run's persisted snapshot is that envelope.
C17_EveryPathPersists ==
    [][ (req'.op = "submit" /\ now' = now + 1 /\ resp'.raised = "")
        => /\ Len(tickets_file') > Len(tickets_file)
           /\ Len(events') > Len(events)
           /\ resp'.updated_ticket # None
                 => store'[resp'.updated_ticket[1].run_id] = resp'.updated_ticket ]_vars

----------------------------------------------------------------------------
(* C18 *)

\* the run_id argument is a non-empty string of whitespace only
WhitespaceOnly(run_id) ==
    run_id # None /\ run_id[1] # <<>> /\ Strip(run_id[1]) = <<>>

\* the envelope begin_run issues: fetch_ticket, empty payload, the four fields
\* of the first stage, validation pending, no report, one initialized entry
InitialEnvelope(ticket) ==
    /\ ticket.state = FETCH_TICKET
    /\ DOMAIN ticket.payload = {}
    /\ ticket.required_fields =
           <<"external_source", "external_ticket_id", "title", "description">>
    /\ ticket.validation = [status |-> "pending", errors |-> <<>>]
    /\ ticket.invalidation_report = None
    /\ Len(ticket.history) = 1
    /\ ticket.history[1].result = "initialized"

\* C18 (as stated): for every ticket_id that is non-empty after trimming and
\* every run_id argument, whitespace-only included, begin_run returns the
\* initial envelope.
C18_BeginRunAnyRunId ==
    (req.op = "begin_run" /\ Strip(req.args.ticket_id) # <<>>)
    => HasReturned /\ InitialEnvelope(Returned)

\* C18 (amended): for every ticket_id that is non-empty after trimming,
\* begin_run returns the initial envelope when run_id is absent, empty (the
\* run_id is then generated) or non-empty after trimming (the run_id is the
\* trimmed argument); for a whitespace-only run_id it returns no envelope,
\* continue=false and a gate result of status retry.
C18_BeginRunIssuesInitial ==
    (req.op = "begin_run" /\ Strip(req.args.ticket_id) # <<>>)
    => IF WhitespaceOnly(req.args.run_id)
       THEN /\ resp.updated_ticket = None
            /\ resp.continue = FALSE
            /\ resp.gate_result # None
            /\ resp.gate_result[1].status = "retry"
       ELSE /\ HasReturned
            /\ InitialEnvelope(Returned)
            /\ resp.continue = TRUE
            /\ Returned.ticket_id = Text(Strip(req.args.ticket_id))
            /\ Returned.run_id =
                  (IF req.args.run_id = None \/ req.args.run_id[1] = <<>>
                   THEN CHOOSE u \in GeneratedRunIds : TRUE
                   ELSE Text(Strip(req.args.run_id[1])))

\* begin_run with an empty run_id issued the initial envelope of a generated run
C18_Witness ==
    /\ req.op = "begin_run"
    /\ req.args.run_id = Some(<<>>)
    /\ Strip(req.args.ticket_id) # <<>>
    /\ HasReturned
    /\ InitialEnvelope(Returned)
    /\ Returned.run_id \in GeneratedRunIds

----------------------------------------------------------------------------
(* C19 *)

\* C19: the gate answers stop exactly for complete and fail_closed; at a
\* working stage it answers retry with a non-empty issue list for a payload
\* that violates the stage's schema (an empty one, one with a blank, missing
\* or mistyped field) and pass with no issue for one that fits, never stop.
C19_GateThreeValued ==
    SubmittedEnvelope =>
    LET sent == Sent
        gate_result == validate(sent.state, sent.payload)
    IN /\ gate_result.status \in {"pass", "retry", "stop"}
       /\ (gate_result.status = "stop") <=> (sent.state \in {COMPLETE, FAIL_CLOSED})
       /\ gate_result.status = "retry" => gate_result.issues # <<>>
       /\ gate_result.status = "pass" => gate_result.issues = <<>>
       /\ sent.state \in SevenStages =>
             /\ LET fitting == validate(sent.state, ValidPayload(sent.state))
                IN fitting.status = "pass" /\ fitting.issues = <<>>
             /\ LET unfitting == validate(sent.state, InvalidPayload(sent.state))
                IN unfitting.status = "retry" /\ unfitting.issues # <<>>
             /\ validate(sent.state, EmptyDict).status = "retry"
             /\ SuccessorOf(sent.state) # COMPLETE =>
                   validate(sent.state, ValidPayload(SuccessorOf(sent.state))).status = "retry"
             /\ sent.payload = ValidPayload(sent.state) => gate_result.status = "pass"
             /\ sent.payload = InvalidPayload(sent.state) => gate_result.status = "retry"

\* the gate answered retry for a payload with a blank field inside a list item
C19_Witness ==
    /\ SubmittedEnvelope
    /\ Sent.state = GATHER_EVIDENCE
    /\ Sent.payload = InvalidPayload(GATHER_EVIDENCE)
    /\ resp.gate_result # None
    /\ resp.gate_result[1].status = "retry"
    /\ resp.gate_result[1].issues # <<>>

----------------------------------------------------------------------------
(* C20 *)

\* the run a call is for: the run_id begin_run resolves, or the one the
\* submitted document carries
RunOf(request) ==
    IF request.op = "begin_run"
    THEN IF request.args.run_id = None \/ request.args.run_id[1] = <<>>
         THEN CHOOSE u \in GeneratedRunIds : TRUE
         ELSE Text(Strip(request.args.run_id[1]))
    ELSE Text(Strip(request.args.ticket_json.obj.run_id))

\* the files as they would be had only the calls of run r been made
Alone(r) ==
    Disk([q \in RunIds |-> IF q = r THEN store[q] ELSE None],
         SelectSeq(tickets_file, LAMBDA e : e.snapshot.run_id = r),
         SelectSeq(events, LAMBDA e : e.run_id = r))

\* what the call would have returned and persisted for its run on those files
AloneOutcome(request, clock) ==
    IF request.op = "begin_run"
    THEN interlock_begin_run(Alone(RunOf(request)), request.args.ticket_id,
                             request.args.run_id, CHOOSE u \in GeneratedRunIds : TRUE, clock)
    ELSE submit_ticket_json(Alone(RunOf(request)), request.args.ticket_json, clock)

\* C20: a begin_run or submit for run A leaves the persisted snapshot of every
\* other run as it was, and its response and the snapshot of A are what the
\* call yields when the other runs' calls were never made.
C20_RunsIndependent ==
    [][ now' = now + 1
        => /\ \A r \in RunIds \ {RunOf(req')} : store'[r] = store[r]
           /\ resp' = AloneOutcome(req', now).resp
           /\ store'[RunOf(req')] = AloneOutcome(req', now).disk.store[RunOf(req')] ]_vars

\* a submit for r2 was answered while r1 is persisted at another stage
C20_Witness ==
    /\ req.op = "submit"
    /\ RunOf(req) = "r2"
    /\ HasReturned
    /\ store["r1"] # None
    /\ store["r2"] # None
    /\ store["r1"][1].state # store["r2"][1].state
    /\ store["r1"][1].history[1].ts < store["r2"][1].history[1].ts

----------------------------------------------------------------------------
(* C21 *)

\* the envelopes returned to the callers whose submit has returned
ReturnedTo(c) == inflight[c].out.resp.updated_ticket

\* C21: with two submits of one run interleaved store write by store write,
\* the persisted snapshot of the run is at every moment the envelope written
\* last, and once both have returned it is the last envelope one of them wrote.
C21_LastWriteWins ==
    /\ store["r1"] = Some(tickets_file[Len(tickets_file)].snapshot)
    /\ (\A c \in Callers : inflight[c].phase = "returned")
          => \E c \in Callers : store["r1"] = ReturnedTo(c)

\* both submits have returned, their writes interleaved; one caller was
\* returned the advance to extract_requirements, the other one's retry was
\* written last, and the persisted snapshot is still in fetch_ticket
C21_Witness ==
    /\ \A c \in Callers : inflight[c].phase = "returned"
    /\ \E c \in Callers :
          /\ ReturnedTo(c)[1].state = EXTRACT_REQUIREMENTS
          /\ inflight[c].out.resp.continue
    /\ Len(tickets_file) = 5
    /\ tickets_file[2].snapshot.validation.status = "pending"
    /\ tickets_file[3].snapshot.validation.status = "pending"
    /\ tickets_file[4].snapshot.state = EXTRACT_REQUIREMENTS
    /\ tickets_file[5].snapshot.state = FETCH_TICKET
    /\ store["r1"][1].state = FETCH_TICKET

----------------------------------------------------------------------------
(* C22 *)

\* the gate's verdict on the (state, payload) it was last given, for a working stage
Validated == req.op = "validate" /\ req.args.state \in SevenStages
Verdict == resp.gate_result[1]
RequiredKeys == LET fields == get_required_fields(req.args.state)
                IN {fields[i] : i \in 1..Len(fields)}
HasIssue(path, code) ==
    \E i \in 1..Len(Verdict.issues) :
        Verdict.issues[i].field = path /\ Verdict.issues[i].code = code

\* C22: for every working stage and payload the gate passes only if the
\* payload's keys are exactly the stage registry's required_fields: a payload
\* without a required field gets retry (with a "missing" issue for it), and a
\* payload with a key outside required_fields gets retry (with an
\* "extra_forbidden" issue for it) even when every required field is valid.
C22_PassOnlyWithExactKeys ==
    Validated =>
        LET keys == DOMAIN req.args.payload
        IN /\ Verdict.status = "pass" => keys = RequiredKeys
           /\ \A k \in RequiredKeys \ keys :
                 Verdict.status = "retry" /\ HasIssue(<<k>>, "missing")
           /\ \A k \in keys \ RequiredKeys :
                 Verdict.status = "retry" /\ HasIssue(<<k>>, "extra_forbidden")

\* a payload with every required field valid and one unknown key was refused
C22_Witness ==
    /\ Validated
    /\ req.args.payload = WithKey(ValidPayload(req.args.state), "unexpected", Word("x"))
    /\ Verdict.status = "retry"
    /\ Len(Verdict.issues) = 1

----------------------------------------------------------------------------
(* C23 *)

\* the positions of a list value holding a string that is empty after trimming
BlankItems(v) == {i \in 1..Len(v.v) : v.v[i].t = "str" /\ Strip(v.v[i].v) = <<>>}
\* the issues of the verdict whose path starts at the key k
IssuesAt(k) == {i \in 1..Len(Verdict.issues) : Head(Verdict.issues[i].field) = k}

\* C23: the gate collects every violation: a payload with violations in
\* several fields has an issue for each of those fields, and a list field
\* with several empty elements has an issue for each of those elements.
C23_AllViolationsCollected ==
    Validated /\ Verdict.status = "retry" =>
        LET payload == req.args.payload
            fields == PayloadModel(STAGE_PAYLOAD_MODELS[req.args.state])
        IN /\ \A k \in RequiredKeys \ DOMAIN payload : IssuesAt(k) # {}
           /\ \A k \in DOMAIN payload \ RequiredKeys : IssuesAt(k) # {}
           /\ \A i \in 1..Len(fields) :
                 LET k == fields[i].name
                     json == IF fields[i].kind \in {"str", "literal"} THEN "str" ELSE "list"
                 IN k \in DOMAIN payload =>
                       /\ payload[k].t # json => IssuesAt(k) # {}
                       /\ payload[k].t = "str" /\ Strip(payload[k].v) = <<>>
                             => IssuesAt(k) # {}
                       /\ payload[k].t = "list"
                             => Cardinality(IssuesAt(k)) >= Cardinality(BlankItems(payload[k]))

----------------------------------------------------------------------------
(* C24 *)

\* the dotted-path strings are compared part by part
Sorted(issues) ==
    \A i \in 1..Len(issues) - 1 : ~IssueLess(issues[i + 1], issues[i])

\* C24: in every retry result the issues are in non-decreasing order of
\* (field, code, message), and missing_or_invalid_fields is the ascending,
\* duplicate-free list of exactly the issues' field paths; validating the
\* same state and payload again gives the same result.
C24_IssuesOrdered ==
    Validated /\ Verdict.status = "retry" =>
        LET issues == Verdict.issues
            fields == Verdict.missing_or_invalid_fields
        IN /\ Sorted(issues)
           /\ \A i \in 1..Len(fields) - 1 : PathLess(fields[i], fields[i + 1])
           /\ {fields[i] : i \in 1..Len(fields)} = {issues[i].field : i \in 1..Len(issues)}
           /\ Verdict = validate(req.args.state, req.args.payload)

\* a retry whose errors pydantic reports in another order than the sorted one:
\* external_source (declared first) is too short, description (declared last)
\* is missing
C24_Witness ==
    /\ Validated
    /\ req.args.state = FETCH_TICKET
    /\ req.args.payload = InvalidPayload(FETCH_TICKET)
    /\ Verdict.status = "retry"
    /\ Len(Verdict.issues) = 2
    /\ Verdict.issues[1].field = <<"description">>
    /\ Verdict.issues[2].field = <<"external_source">>

----------------------------------------------------------------------------
(* C25 *)

\* C25: FAIL_CLOSED is entered only through the version check. A submit of an
\* envelope with the server's schema_version and a working stage never returns
\* FAIL_CLOSED; its gate result is pass or retry and its transition is never a
\* stop, the stage registry, the payload-schema table and the successor map
\* covering the same seven stages; so every fail_closed event on record has
\* reason_code "schema_version_mismatch", never "blocking_gate_failure".
C25_FailClosedOnlyByVersion ==
    /\ DOMAIN STAGE_SPECS = SevenStages
    /\ DOMAIN STAGE_PAYLOAD_MODELS = SevenStages
    /\ DOMAIN TRANSITION_MAP = SevenStages
    /\ \A i \in 1..Len(events) :
          events[i].event_type = "fail_closed"
             => events[i].details.reason_code = "schema_version_mismatch"
    /\ SubmittedEnvelope =>
          LET sent == Sent
          IN (sent.schema_version = SCHEMA_VERSION /\ sent.state \in SevenStages)
             => /\ HasReturned
                /\ Returned.state # FAIL_CLOSED
                /\ Returned.invalidation_report = None
                /\ resp.gate_result[1].status \in {"pass", "retry"}
                /\ resp.reason # "Blocking validation failure"
                /\ transition(sent.state).status # "stop"
                /\ transition(sent.state).next_state # NoState

\* a run was failed closed for its version, and then a document with the
\* server's version declaring scope_context went through the gate
C25_Witness ==
    /\ \E i \in 1..Len(events) : events[i].event_type = "fail_closed"
    /\ SubmittedEnvelope
    /\ Sent.schema_version = SCHEMA_VERSION
    /\ Sent.state = SCOPE_CONTEXT
    /\ HasReturned
    /\ Returned.state = SCOPE_CONTEXT
    /\ resp.gate_result[1].status = "retry"

----------------------------------------------------------------------------
(* C26 *)

\* the history of an envelope is a chain that ends in its state
HistoryIsChain(ticket) ==
    LET h == ticket.history
    IN /\ Len(h) >= 1
       /\ h[1].from_state = NoState
       /\ \A i \in 2..Len(h) : h[i].from_state = h[i - 1].to_state
       /\ h[Len(h)].to_state = ticket.state

\* C26: in every envelope reached from begin_run by submits that echo the
\* latest server-issued envelope, with any payload and any schema_version, the
\* first history entry has no from_state, each later entry starts where the
\* previous one ended, and the last entry ends in the envelope's state.
C26_HistoryIsChain ==
    /\ held["r1"] # None => HistoryIsChain(held["r1"][1])
    /\ HasReturned => HistoryIsChain(Returned)

\* a completed run that is then failed closed for its version: nine entries,
\* the last one from complete to fail_closed
C26_Witness ==
    /\ HasReturned
    /\ Returned.state = FAIL_CLOSED
    /\ Len(Returned.history) = 9
    /\ Returned.history[9].from_state = COMPLETE
    /\ Returned.history[8].to_state = COMPLETE

----------------------------------------------------------------------------
(* C27 *)

\* C27: in every envelope reached from begin_run by echoing submits, the state
\* is FAIL_CLOSED exactly when an invalidation_report is present and exactly
\* when validation.status is invalid_blocking; a report that is present has
\* fixable = false.
C27_FailClosedIffReport ==
    held["r1"] # None =>
        LET ticket == held["r1"][1]
        IN /\ (ticket.state = FAIL_CLOSED) <=> (ticket.invalidation_report # None)
           /\ (ticket.state = FAIL_CLOSED) <=> (ticket.validation.status = "invalid_blocking")
           /\ ticket.invalidation_report # None => ticket.invalidation_report[1].fixable = FALSE

\* a failed-closed envelope echoed with the server's version: it comes back
\* through the terminal branch with its report and its blocking status
C27_Witness ==
    /\ SubmittedEnvelope
    /\ Sent.state = FAIL_CLOSED
    /\ Sent.schema_version = SCHEMA_VERSION
    /\ HasReturned
    /\ Returned.state = FAIL_CLOSED
    /\ Returned.invalidation_report # None
    /\ Returned.validation.status = "invalid_blocking"

----------------------------------------------------------------------------
(* C28 *)

\* C28: in every response of begin_run or submit that carries an envelope,
\* continue is true exactly when the envelope's state is one of the seven
\* working stages, next_state is the envelope's state and next_role is its
\* agent_role.
C28_ResponseMatchesEnvelope ==
    HasReturned =>
        /\ resp.continue <=> Returned.state \in SevenStages
        /\ resp.next_state = Returned.state
        /\ resp.next_role = Returned.agent_role

\* a rewritten document declaring record_and_finalize passes: the response
\* carries complete and continue = false
C28_Witness ==
    /\ req.op = "submit"
    /\ HasReturned
    /\ Returned.state = COMPLETE
    /\ Returned.history[Len(Returned.history)].result = "completed"
    /\ resp.continue = FALSE
    /\ resp.next_state = COMPLETE
    /\ resp.next_role = AGENT_ROLE_COMPLETE

----------------------------------------------------------------------------
(* C29 *)

\* C29: on every path of submit that returns an envelope (version mismatch,
\* terminal, retry, advance) the returned run_id, ticket_id, schema_version
\* and created_at are those of the envelope the document parsed to; a
\* version-mismatch fail-close keeps the mismatching schema_version.
C29_IdentityFieldsKept ==
    SubmittedEnvelope =>
        LET sent == Sent
        IN /\ HasReturned
           /\ Returned.run_id = sent.run_id
           /\ Returned.ticket_id = sent.ticket_id
           /\ Returned.schema_version = sent.schema_version
           /\ Returned.created_at = sent.created_at

\* an envelope created at clock 0 and submitted later with version 0.9.0 is
\* failed closed and still carries 0.9.0 and its created_at
C29_Witness ==
    /\ SubmittedEnvelope
    /\ EchoedWithPayload
    /\ Sent.schema_version = "0.9.0"
    /\ HasReturned
    /\ Returned.state = FAIL_CLOSED
    /\ Returned.schema_version = "0.9.0"
    /\ Returned.created_at < Returned.updated_at

----------------------------------------------------------------------------
(* C30 *)

\* the position of a state in the chain, and the history entries that changed
\* the state
Position(s) == CHOOSE i \in 1..8 : Chain[i] = s
StateChanges(ticket) ==
    {i \in 2..Len(ticket.history) : ticket.history[i].from_state # ticket.history[i].to_state}

\* C30: along submits that echo the latest envelope with the server's
\* schema_version the position of the stage in the chain never decreases, at
\* most seven submits change the state, and if the agent eventually submits a
\* fitting payload at every stage it is in, the run reaches COMPLETE.
C30_MonotoneAndTerminates ==
    /\ [][ held["r1"] # None
             => Position(held'["r1"][1].state) >= Position(held["r1"][1].state) ]_vars
    /\ [](held["r1"] # None => Cardinality(StateChanges(held["r1"][1])) <= 7)
    /\ (held["r1"] # None) ~> (held["r1"] # None /\ held["r1"][1].state = COMPLETE)

\* the run is complete after seven advances and as many retries as the bound allows
C30_Witness ==
    /\ held["r1"] # None
    /\ held["r1"][1].state = COMPLETE
    /\ Cardinality(StateChanges(held["r1"][1])) = 7
    /\ Len(held["r1"][1].history) = 8 + MaxRetries

====
